---- MODULE Spec2Model ----
(***************************************************************************)
(* VortexNav chart engine: the CM93 cipher, cell parser, reader (cell      *)
(* cache and spatial index), feature server and MBTiles writer, the        *)
(* MBTiles tile and metadata tables, the chart import commands with the    *)
(* BSB catalogue parser, the BSB converter and the GPS manager, modelled   *)
(* from vortexnav-app/src-tauri/src/cm93/*.rs, database.rs, commands.rs,   *)
(* chart_converter.rs and gps.rs.                                          *)
(***************************************************************************)
EXTENDS Integers, Sequences, FiniteSets, TLC

VARIABLES
  cipher_orig,      \* the buffer before any cipher call (decode.rs tests)
  cipher_buf,       \* the buffer encode_buffer / decode_buffer work on in place
  cipher_hist,      \* the cipher calls applied to cipher_buf so far
  parse_file,       \* the bytes of the cell file handed to Cm93Cell::parse
  parse_origin,     \* the complete file that parse_file is a prefix of
  parse_state,      \* the state of that parse: the record ps of ParseBegin
  cell_cache,       \* Cm93Reader.cell_cache: (scale, cell_index) -> Cm93Cell
  max_cache_size,   \* Cm93Reader.max_cache_size
  bounds_index,     \* Cm93Reader.bounds_index: (scale, cell_index) -> [f64; 4]
  indexed_scales,   \* Cm93Reader.indexed_scales
  header_reads,     \* per cell file, the parse_header_only calls made so far
  query,            \* the get_features_in_bounds call under way, if any
  last_op,          \* the latest finished Cm93Reader call and what it returned
  zoom_call,        \* a scale_for_zoom question: the zoom and the answers so far
  tile_file,        \* the one cell file of the database behind a Cm93Server
  tile_call,        \* a feature request to that server: its box and its answers
  mbt_tiles,        \* the rows of the tiles table of one MBTiles file
  mbt_last,         \* the latest insert_tile or get_tile call on that file
  meta_table,       \* the metadata table of one MBTiles file: its rows in rowid order
  meta_last,        \* the latest metadata write that returned, with the table it checked
  meta_calls,       \* per caller, its metadata write between the check and the statement
  imp_input,        \* an import request: the command, the files, the CPU count, the hanging calls
  imp_dir,          \* the charts directory: its .mbtiles files, the run that wrote each, and which are empty databases
  imp_threads,      \* per input file, where its worker thread or loop iteration is
  imp_run,          \* the import under way: its phase, shared counters and result, and the chart commands beside it
  conv_dir,         \* the files of one stem in the charts directory
  conv_calls,       \* per caller, the position of its convert_bsb_to_mbtiles call on the stem
  imp_events,       \* the "import-progress" events a listener has received, in order
  imp_cancel,       \* whether the user has asked to cancel the import under way
  bsb_file,         \* the lines of one BSB file, as content.lines() yields them
  bsb_call,         \* one parse_bsb_full call on that file: its position, joined lines and records
  mbw_table,        \* the metadata table of the MBTiles file an MBTilesWriter writes: its rows in rowid order
  mbw_writer,       \* per connection, the MBTilesWriter open on that file, its latest call and how far it got
  gps_stop_flag,    \* GpsManager.stop_flag, the one AtomicBool every reader thread shares
  gps_handle,       \* GpsManager.reader_handle: the thread of the latest start, if not taken
  gps_status,       \* GpsManager.status: status, sentences_received and who wrote to it last (0: the manager)
  gps_data,         \* the reader thread that wrote GpsManager.data last (0: nobody)
  gps_threads,      \* the reader threads spawned so far, in order: position, retry count, sentence count and sources
  gps_mgr           \* the start or stop call under way on the manager, the result of the last one, and the sources configured

cipher_vars == << cipher_orig, cipher_buf, cipher_hist >>

parse_vars == << parse_file, parse_origin, parse_state >>

reader_vars ==
  << cell_cache, max_cache_size, bounds_index, indexed_scales, header_reads,
     query, last_op >>

\* The cipher, the parser and the reader: the chart-reading components.
chart_vars == << cipher_vars, parse_vars, reader_vars >>

\* The components built on top of the chart-reading ones.
zoom_vars == << zoom_call >>
tile_vars == << tile_file, tile_call >>
mbtiles_vars == << mbt_tiles, mbt_last >>
metadata_vars == << meta_table, meta_last, meta_calls >>
import_vars == << imp_input, imp_dir, imp_threads, imp_run >>
convert_vars == << conv_dir, conv_calls >>
progress_vars == << imp_events >>
cancel_vars == << imp_cancel >>
bsb_vars == << bsb_file, bsb_call >>
writer_vars == << mbw_table, mbw_writer >>
gps_vars == << gps_stop_flag, gps_handle, gps_status, gps_data, gps_threads, gps_mgr >>

app_vars == << zoom_vars, tile_vars, mbtiles_vars, metadata_vars, import_vars, convert_vars, progress_vars, cancel_vars, bsb_vars, writer_vars, gps_vars >>

\* What the actions of one component leave alone.
beside_zoom_vars == << chart_vars, tile_vars, mbtiles_vars, metadata_vars, import_vars, convert_vars, progress_vars, cancel_vars, bsb_vars, writer_vars, gps_vars >>
beside_tile_vars == << chart_vars, zoom_vars, mbtiles_vars, metadata_vars, import_vars, convert_vars, progress_vars, cancel_vars, bsb_vars, writer_vars, gps_vars >>
beside_mbtiles_vars == << chart_vars, zoom_vars, tile_vars, metadata_vars, import_vars, convert_vars, progress_vars, cancel_vars, bsb_vars, writer_vars, gps_vars >>
beside_metadata_vars == << chart_vars, zoom_vars, tile_vars, mbtiles_vars, import_vars, convert_vars, progress_vars, cancel_vars, bsb_vars, writer_vars, gps_vars >>
beside_import_vars == << chart_vars, zoom_vars, tile_vars, mbtiles_vars, metadata_vars, convert_vars, progress_vars, cancel_vars, bsb_vars, writer_vars, gps_vars >>
beside_convert_vars == << chart_vars, zoom_vars, tile_vars, mbtiles_vars, metadata_vars, import_vars, progress_vars, cancel_vars, bsb_vars, writer_vars, gps_vars >>
beside_progress_vars == << chart_vars, zoom_vars, tile_vars, mbtiles_vars, metadata_vars, import_vars, convert_vars, cancel_vars, bsb_vars, writer_vars, gps_vars >>
beside_emit_vars == << chart_vars, zoom_vars, tile_vars, mbtiles_vars, metadata_vars, convert_vars, cancel_vars, bsb_vars, writer_vars, gps_vars >>
beside_cancel_vars == << chart_vars, zoom_vars, tile_vars, mbtiles_vars, metadata_vars, import_vars, convert_vars, progress_vars, bsb_vars, writer_vars, gps_vars >>
beside_bsb_vars == << chart_vars, zoom_vars, tile_vars, mbtiles_vars, metadata_vars, import_vars, convert_vars, progress_vars, cancel_vars, writer_vars, gps_vars >>
beside_writer_vars == << chart_vars, zoom_vars, tile_vars, mbtiles_vars, metadata_vars, import_vars, convert_vars, progress_vars, cancel_vars, bsb_vars, gps_vars >>
beside_gps_vars == << chart_vars, zoom_vars, tile_vars, mbtiles_vars, metadata_vars, import_vars, convert_vars, progress_vars, cancel_vars, bsb_vars, writer_vars >>

vars ==
  << cipher_orig, cipher_buf, cipher_hist, parse_file, parse_origin, parse_state,
     cell_cache, max_cache_size, bounds_index, indexed_scales, header_reads,
     query, last_op, zoom_call, tile_file, tile_call,
     mbt_tiles, mbt_last,
     meta_table, meta_last, meta_calls,
     imp_input, imp_dir, imp_threads, imp_run,
     conv_dir, conv_calls,
     imp_events,
     imp_cancel,
     bsb_file, bsb_call,
     mbw_table, mbw_writer,
     gps_stop_flag, gps_handle, gps_status, gps_data, gps_threads, gps_mgr >>

(***************************************************************************)
(* Bit helpers on unsigned integers.                                       *)
(***************************************************************************)
Bit(x, k) == (x \div (2 ^ k)) % 2

Bytes == 0 .. 255

(***************************************************************************)
(* decode.rs: the substitution cipher.                                     *)
(***************************************************************************)
TABLE_0 ==
  << 205, 234, 220, 72, 62, 109, 202, 123, 82, 225, 164, 142, 171, 5, 167, 151,
     185, 96, 57, 133, 124, 86, 122, 186, 104, 110, 245, 93, 2, 78, 15, 161,
     39, 36, 65, 52, 0, 90, 254, 203, 208, 250, 248, 108, 116, 150, 158, 14,
     194, 73, 227, 229, 192, 59, 89, 24, 169, 134, 143, 48, 195, 168, 34, 10,
     20, 26, 178, 201, 199, 237, 170, 41, 148, 117, 13, 172, 12, 244, 187, 197,
     63, 253, 217, 156, 79, 213, 132, 30, 177, 129, 105, 180, 9, 184, 60, 175,
     163, 8, 191, 224, 154, 215, 247, 140, 103, 102, 174, 212, 76, 165, 236, 249,
     182, 100, 120, 6, 91, 155, 242, 153, 206, 219, 83, 85, 101, 141, 7, 51,
     4, 55, 146, 38, 35, 181, 88, 218, 47, 179, 64, 94, 127, 75, 98, 128,
     228, 111, 115, 29, 223, 23, 204, 40, 37, 45, 238, 58, 152, 226, 1, 11,
     221, 188, 144, 176, 252, 149, 118, 147, 70, 87, 44, 43, 80, 17, 11, 193,
     240, 231, 214, 33, 49, 222, 255, 216, 18, 166, 77, 138, 19, 67, 69, 56,
     210, 135, 160, 239, 130, 241, 71, 137, 106, 200, 84, 27, 22, 126, 121, 189,
     107, 145, 162, 113, 54, 183, 3, 61, 114, 198, 68, 139, 207, 21, 159, 50,
     196, 119, 131, 99, 32, 136, 246, 173, 243, 232, 74, 233, 53, 28, 95, 25,
     31, 125, 112, 251, 209, 81, 16, 211, 46, 97, 157, 92, 42, 66, 190, 230 >>

\* TABLE_0[i] ^ 8 on a byte: flip bit 3.
XorEight(x) == IF Bit(x, 3) = 1 THEN x - 8 ELSE x + 8

\* init_tables: for i in 0..256 { encode[i] = TABLE_0[i] ^ 8; decode[encode[i]] = i }
\* Both tables start as [0u8; 256].  After the loop, slot e of the decode table
\* holds the last i written to it (the largest i with encode[i] = e), or the
\* initial 0 when no i encodes to e.
SetMax(S) == CHOOSE m \in S : \A x \in S : x <= m

init_tables ==
  LET encode_table == [i \in Bytes |-> XorEight(TABLE_0[i + 1])]
      writers(e) == { i \in Bytes : encode_table[i] = e }
      decode_table == [e \in Bytes |->
                         IF writers(e) = {} THEN 0 ELSE SetMax(writers(e))]
  IN << encode_table, decode_table >>

ENCODE_TABLE == init_tables[1]
DECODE_TABLE == init_tables[2]

encode_byte(b) == ENCODE_TABLE[b]
decode_byte(b) == DECODE_TABLE[b]

encode_buffer(data) == [i \in 1 .. Len(data) |-> encode_byte(data[i])]
decode_buffer(data) == [i \in 1 .. Len(data) |-> decode_byte(data[i])]

(***************************************************************************)
(* geometry.rs: offset-tracked little-endian reads.  A read returns        *)
(* Some(value) and advances the offset, or None and leaves it in place.    *)
(* Offsets are 0-based as in the source; data[offset] is data[offset + 1]  *)
(* of the TLA+ sequence.                                                   *)
(***************************************************************************)
ByteAt(data, offset) == data[offset + 1]

None == [some |-> FALSE]
Some(v) == [some |-> TRUE, val |-> v]

unwrap_or(opt, default) == IF opt.some THEN opt.val ELSE default

\* read_u16: Option<u16> and the offset after the call.
read_u16(data, offset) ==
  IF offset + 2 > Len(data)
  THEN [opt |-> None, offset |-> offset]
  ELSE [opt |-> Some(ByteAt(data, offset) + 256 * ByteAt(data, offset + 1)),
        offset |-> offset + 2]

\* read_u32: Option<u32> and the offset after the call.
read_u32(data, offset) ==
  IF offset + 4 > Len(data)
  THEN [opt |-> None, offset |-> offset]
  ELSE [opt |-> Some(ByteAt(data, offset) + 256 * ByteAt(data, offset + 1)
                     + 65536 * ByteAt(data, offset + 2)
                     + 16777216 * ByteAt(data, offset + 3)),
        offset |-> offset + 4]

\* read_f64: f64::from_le_bytes keeps the eight bytes as the bit pattern of the
\* double, so an f64 value is modelled by its eight little-endian bytes.
read_f64(data, offset) ==
  IF offset + 8 > Len(data)
  THEN [opt |-> None, offset |-> offset]
  ELSE [opt |-> Some([i \in 1 .. 8 |-> ByteAt(data, offset + i - 1)]),
        offset |-> offset + 8]

\* The double 0.0 of unwrap_or(0.0).
F64Zero == << 0, 0, 0, 0, 0, 0, 0, 0 >>

\* IEEE-754 fields of a double given by its little-endian bytes.
F64Negative(f) == f[8] >= 128
F64Exponent(f) == (f[8] % 128) * 16 + (f[7] \div 16)
\* The magnitude as a most-significant-first tuple: exponent, then mantissa.
F64Magnitude(f) ==
  << F64Exponent(f), f[7] % 16, f[6], f[5], f[4], f[3], f[2], f[1] >>
F64MantissaZero(f) ==
  /\ f[7] % 16 = 0
  /\ \A i \in 1 .. 6 : f[i] = 0
F64IsNaN(f) == F64Exponent(f) = 2047 /\ ~F64MantissaZero(f)
F64IsZero(f) == F64Exponent(f) = 0 /\ F64MantissaZero(f)

\* Lexicographic a < b on tuples of the same length.
TupleLess(a, b) ==
  \E i \in 1 .. Len(a) :
    /\ a[i] < b[i]
    /\ \A j \in 1 .. (i - 1) : a[j] = b[j]

\* a < b on doubles: false when either is NaN; -0.0 and 0.0 are equal.
F64Less(a, b) ==
  /\ ~F64IsNaN(a)
  /\ ~F64IsNaN(b)
  /\ ~(F64IsZero(a) /\ F64IsZero(b))
  /\ IF F64Negative(a)
     THEN IF F64Negative(b)
          THEN TupleLess(F64Magnitude(b), F64Magnitude(a))
          ELSE TRUE
     ELSE IF F64Negative(b)
          THEN FALSE
          ELSE TupleLess(F64Magnitude(a), F64Magnitude(b))

\* a > b on doubles.
F64Greater(a, b) == F64Less(b, a)

\* The value of a double that holds a whole number of magnitude below 2^21
\* (the Mercator bounds of the modelled cells are whole metres).
F64ToInt(f) ==
  IF F64IsZero(f) THEN 0
  ELSE LET k == F64Exponent(f) - 1023
           top20 == (f[7] % 16) * 65536 + f[6] * 256 + f[5]
           mag == (1048576 + top20) \div (2 ^ (20 - k))
       IN IF F64Negative(f) THEN 0 - mag ELSE mag

\* The units of a degree held as a whole number: 1e-8 degree.
DegreeUnits == 10 ^ 8

(***************************************************************************)
(* geometry.rs: coordinate transform and geometry values.  Cell-local      *)
(* points map to Mercator metres E_min + x * x_rate, N_min + y * y_rate,   *)
(* and mercator_to_geo takes the metres to degrees.  A GeoPoint names its   *)
(* latitude and longitude by the nearest whole number of 1e-8 degree; the  *)
(* double itself is kept beside it for the comparisons with a query box.   *)
(***************************************************************************)
Abs(n) == IF n < 0 THEN 0 - n ELSE n

\* mercator_to_geo on the whole metres 0, 1, 2, 3, 4 that the modelled cells
\* reach (entry m + 1 is for m metres): the doubles that
\* `point.x / CM93_SEMIMAJOR_AXIS * RAD_TO_DEG` and
\* `(2.0 * (point.y / CM93_SEMIMAJOR_AXIS).exp().atan() - FRAC_PI_2) * RAD_TO_DEG`
\* give, as little-endian bytes.  The latitude of m metres is not the same
\* double as the longitude of m metres.
LongitudeDoubles ==
  << << 0, 0, 0, 0, 0, 0, 0, 0 >>,
     << 155, 173, 91, 138, 154, 214, 226, 62 >>,
     << 155, 173, 91, 138, 154, 214, 242, 62 >>,
     << 105, 132, 137, 207, 231, 65, 252, 62 >>,
     << 155, 173, 91, 138, 154, 214, 2, 63 >> >>
LatitudeDoubles ==
  << << 0, 0, 0, 0, 0, 0, 0, 0 >>,
     << 153, 144, 109, 138, 154, 214, 226, 62 >>,
     << 153, 144, 109, 138, 154, 214, 242, 62 >>,
     << 230, 88, 164, 207, 231, 65, 252, 62 >>,
     << 153, 144, 109, 138, 154, 214, 2, 63 >> >>

\* The same doubles to the nearest 1e-8 degree: 8.98279934e-06 degree per metre.
MetresToDegrees == << 0, 898, 1797, 2695, 3593 >>

\* The double behind a longitude (latitude) of the table.
LongitudeDouble(lon) ==
  LongitudeDoubles[CHOOSE m \in DOMAIN MetresToDegrees : MetresToDegrees[m] = lon]
LatitudeDouble(lat) ==
  LatitudeDoubles[CHOOSE m \in DOMAIN MetresToDegrees : MetresToDegrees[m] = lat]

\* Metres outside the table have no value here.
mercator_to_geo(point) ==
  [lat |-> MetresToDegrees[point.y + 1], lon |-> MetresToDegrees[point.x + 1]]

\* CellTransform::to_geo
to_geo(transform, point) ==
  mercator_to_geo([x |-> transform.easting_min + point.x * transform.x_rate,
                   y |-> transform.northing_min + point.y * transform.y_rate])

\* CellTransform::to_geo_batch
to_geo_batch(transform, points) ==
  [i \in 1 .. Len(points) |-> to_geo(transform, points[i])]

\* Cm93Geometry::point / line / area
Cm93Geometry_point(lat, lon) ==
  [geom_type |-> 1, points |-> << [lat |-> lat, lon |-> lon] >>, ring_starts |-> << >>]
Cm93Geometry_line(points) ==
  [geom_type |-> 2, points |-> points, ring_starts |-> << >>]
Cm93Geometry_area(points, ring_starts) ==
  [geom_type |-> 4, points |-> points,
   ring_starts |-> IF ring_starts = << >> THEN << 0 >> ELSE ring_starts]

\* Vec::reverse
Reverse(seq) == [i \in 1 .. Len(seq) |-> seq[Len(seq) + 1 - i]]

\* Iterator::skip(1)
SkipFirst(seq) == IF seq = << >> THEN << >> ELSE Tail(seq)

(***************************************************************************)
(* cell.rs: the cell header.                                               *)
(***************************************************************************)
HEADER_LEN == 138

\* x_rate / y_rate: delta / 65535 when |delta| > 0.001, else 1.0.  The modelled
\* cells have whole-metre Mercator spans that are multiples of 65535, so the
\* division is exact.
ScaleRate(delta) == IF Abs(delta) > 0 THEN delta \div 65535 ELSE 1

\* Cm93Cell::parse_header on data of at least 138 bytes: the reads in file order.
parse_header(data) ==
  LET prolog_header_len == read_u16(data, 0)
      lon_min == read_f64(data, 10)
      lat_min == read_f64(data, lon_min.offset)
      lon_max == read_f64(data, lat_min.offset)
      lat_max == read_f64(data, lon_max.offset)
      easting_min == read_f64(data, lat_max.offset)
      northing_min == read_f64(data, easting_min.offset)
      easting_max == read_f64(data, northing_min.offset)
      northing_max == read_f64(data, easting_max.offset)
      edge_count == read_u16(data, northing_max.offset)
      point3d_count == read_u16(data, edge_count.offset + 12)
      point2d_count == read_u16(data, point3d_count.offset + 8)
      feature_count == read_u16(data, point2d_count.offset + 4)
      e_min == unwrap_or(easting_min.opt, F64Zero)
      n_min == unwrap_or(northing_min.opt, F64Zero)
      e_max == unwrap_or(easting_max.opt, F64Zero)
      n_max == unwrap_or(northing_max.opt, F64Zero)
  IN [signature |-> unwrap_or(prolog_header_len.opt, 0),
      lon_min |-> unwrap_or(lon_min.opt, F64Zero),
      lat_min |-> unwrap_or(lat_min.opt, F64Zero),
      lon_max |-> unwrap_or(lon_max.opt, F64Zero),
      lat_max |-> unwrap_or(lat_max.opt, F64Zero),
      easting_min |-> e_min,
      northing_min |-> n_min,
      easting_max |-> e_max,
      northing_max |-> n_max,
      x_rate |-> ScaleRate(F64ToInt(e_max) - F64ToInt(e_min)),
      y_rate |-> ScaleRate(F64ToInt(n_max) - F64ToInt(n_min)),
      feature_count |-> unwrap_or(feature_count.opt, 0),
      edge_count |-> unwrap_or(edge_count.opt, 0),
      connected_node_count |->
        unwrap_or(point3d_count.opt, 0) + unwrap_or(point2d_count.opt, 0),
      feature_table_offset |-> HEADER_LEN,
      geometry_offset |-> 0]

\* CellTransform::new(header.easting_min, header.northing_min, x_rate, y_rate)
CellTransform_new(header) ==
  [easting_min |-> F64ToInt(header.easting_min),
   northing_min |-> F64ToInt(header.northing_min),
   x_rate |-> header.x_rate,
   y_rate |-> header.y_rate]

\* Cm93Cell::bounds: the header's geographic bounds.
Cm93Cell_bounds(cell) ==
  << cell.header.lon_min, cell.header.lat_min,
     cell.header.lon_max, cell.header.lat_max >>

(***************************************************************************)
(* cell.rs: Cm93Cell::parse and parse_features as a state record `ps` and   *)
(* one step per loop iteration.                                            *)
(*   pc               "edges" | "features" | "ok" | "err" | "panic"        *)
(*   data             the deciphered file                                  *)
(*   offset           the read cursor                                      *)
(*   edge_geometries  the edges parsed so far (cell-local points)          *)
(*   edge_read_end    one past the last byte consumed by the edge loop     *)
(*   features         the features emitted so far                          *)
(*   last             the locals of the latest feature-loop iteration      *)
(***************************************************************************)
NoHeader == [feature_count |-> 0, edge_count |-> 0]
NoTransform == [easting_min |-> 0, northing_min |-> 0, x_rate |-> 1, y_rate |-> 1]
NoIteration == [kind |-> "none"]

\* No parse under way (the other components' specifications keep this value).
ParseIdle == [pc |-> "idle"]

ParseFailed(pc, data) ==
  [pc |-> pc, data |-> data, header |-> NoHeader, transform |-> NoTransform,
   vector_table_len |-> 0, feature_table_len |-> 0, offset |-> 0,
   edge_idx |-> 0, edge_geometries |-> << >>, edge_read_end |-> 0,
   feat_idx |-> 0, features |-> << >>, last |-> NoIteration]

\* Cm93Cell::parse up to the first loop of parse_features: read the file, check
\* its length, decipher it, parse the header and re-read the prolog lengths.
ParseBegin(file) ==
  IF Len(file) < 128 THEN ParseFailed("err", << >>)
  ELSE LET data == decode_buffer(file)
       IN IF Len(data) < HEADER_LEN THEN ParseFailed("err", data)
          ELSE LET header == parse_header(data)
                   word0 == read_u16(data, 0)
                   vlen == read_u32(data, word0.offset)
                   flen == read_u32(data, vlen.offset)
               IN [pc |-> "edges", data |-> data, header |-> header,
                   transform |-> CellTransform_new(header),
                   vector_table_len |-> unwrap_or(vlen.opt, 0),
                   feature_table_len |-> unwrap_or(flen.opt, 0),
                   offset |-> HEADER_LEN,
                   edge_idx |-> 0, edge_geometries |-> << >>,
                   edge_read_end |-> HEADER_LEN,
                   feat_idx |-> 0, features |-> << >>, last |-> NoIteration]

feature_section_start(ps) == HEADER_LEN + ps.vector_table_len
feature_section_end(ps) == feature_section_start(ps) + ps.feature_table_len

\* The inner loop `for _ in 0..npoints` of the edge loop, with k points to go.
RECURSIVE EdgePointsLoop(_, _, _, _, _)
EdgePointsLoop(data, section_start, k, offset, points) ==
  IF k = 0 THEN [offset |-> offset, points |-> points]
  ELSE IF offset + 4 > Len(data) \/ offset >= section_start
       THEN [offset |-> offset, points |-> points]
       ELSE LET x == read_u16(data, offset)
                y == read_u16(data, x.offset)
            IN EdgePointsLoop(data, section_start, k - 1, y.offset,
                              Append(points, [x |-> unwrap_or(x.opt, 0),
                                              y |-> unwrap_or(y.opt, 0)]))

\* parse_features once the edge loop is over: offset = feature_section_start.
EnterFeatures(ps) ==
  [ps EXCEPT !.pc = "features", !.offset = feature_section_start(ps)]

\* One iteration of `for edge_idx in 0..header.edge_count`.
EdgeStep(ps) ==
  IF ps.edge_idx >= ps.header.edge_count THEN EnterFeatures(ps)
  ELSE IF \/ ps.offset + 2 > Len(ps.data)
          \/ ps.offset >= feature_section_start(ps)
       THEN EnterFeatures(ps)
       ELSE LET npoints == read_u16(ps.data, ps.offset)
                loop == EdgePointsLoop(ps.data, feature_section_start(ps),
                                       unwrap_or(npoints.opt, 0),
                                       npoints.offset, << >>)
            IN [ps EXCEPT !.offset = loop.offset,
                          !.edge_read_end = loop.offset,
                          !.edge_idx = ps.edge_idx + 1,
                          !.edge_geometries = Append(ps.edge_geometries, loop.points)]

\* Mutant of actual_data_bytes: the attribute bit is ignored.
actual_data_bytes_NoAttributes(geom_prim, obj_desc_bytes) ==
  LET geom_type_raw == geom_prim % 16
  IN IF (geom_type_raw = 2 \/ geom_type_raw = 4) /\ obj_desc_bytes >= 4
     THEN obj_desc_bytes - 4
     ELSE obj_desc_bytes

\* The size correction: obj_desc_bytes counts 4 bytes of virtual overhead for
\* line/area features and for features with attributes.
actual_data_bytes(geom_prim, obj_desc_bytes) ==
  LET geom_type_raw == geom_prim % 16
      has_geometry == geom_type_raw = 2 \/ geom_type_raw = 4
      has_attributes == Bit(geom_prim, 7) = 1
  IN IF (has_geometry \/ has_attributes) /\ obj_desc_bytes >= 4
     THEN obj_desc_bytes - 4
     ELSE obj_desc_bytes

\* Mutant of AppendEdge: the junction vertex is not skipped.
AppendEdge_NoSkip(transform, geometry_points, edge_points, reverse) ==
  LET batch == to_geo_batch(transform, edge_points)
  IN geometry_points \o (IF reverse THEN Reverse(batch) ELSE batch)

\* Mutant of AppendEdge: the first point is dropped before the edge is reversed.
AppendEdge_SkipBeforeReverse(transform, geometry_points, edge_points, reverse) ==
  LET batch == to_geo_batch(transform, edge_points)
      kept == IF geometry_points # << >> THEN SkipFirst(batch) ELSE batch
  IN geometry_points \o (IF reverse THEN Reverse(kept) ELSE kept)

\* Appending one referenced edge to the geometry assembled so far: transform,
\* reverse if flagged, skip the first point when both sides are non-empty.
AppendEdge(transform, geometry_points, edge_points, reverse) ==
  LET batch == to_geo_batch(transform, edge_points)
      geo_points == IF reverse THEN Reverse(batch) ELSE batch
  IN IF geometry_points # << >> /\ geo_points # << >>
     THEN geometry_points \o SkipFirst(geo_points)
     ELSE geometry_points \o geo_points

\* The loop `for _ in 0..n_elements` over the edge references of a line or
\* area, with k references to go.  refs records, per reference, whether its
\* read_u16 returned Some and the value used.
RECURSIVE EdgeRefLoop(_, _, _, _, _, _)
EdgeRefLoop(ps, feature_data_end, k, offset, geometry_points, refs) ==
  IF k = 0 \/ offset + 2 > feature_data_end
  THEN [offset |-> offset, points |-> geometry_points, refs |-> refs]
  ELSE LET r == read_u16(ps.data, offset)
           edge_index == unwrap_or(r.opt, 0)
           actual_index == edge_index % 8192
           reverse == Bit(edge_index, 13) = 1
           next_points ==
             IF actual_index < Len(ps.edge_geometries)
             THEN AppendEdge(ps.transform, geometry_points,
                             ps.edge_geometries[actual_index + 1], reverse)
             ELSE geometry_points
       IN EdgeRefLoop(ps, feature_data_end, k - 1, r.offset, next_points,
                      Append(refs, [some |-> r.opt.some, edge_index |-> edge_index]))

\* The 2D and 3D point arrays are never filled by parse_features.
point2d_array == << >>
point3d_array == << >>

\* The payload of a point (1) or sounding (8) feature: an index into a point array.
PointPayload(ps, feature_data_end, offset, array) ==
  IF offset + 2 <= feature_data_end
  THEN LET point_index == read_u16(ps.data, offset)
           idx == unwrap_or(point_index.opt, 0)
       IN [offset |-> point_index.offset,
           points |-> IF idx < Len(array)
                      THEN << to_geo(ps.transform, array[idx + 1]) >>
                      ELSE << >>,
           refs |-> << >>]
  ELSE [offset |-> offset, points |-> << >>, refs |-> << >>]

\* The payload of a line (2) or area (4) feature: n_elements, then the references.
LinePayload(ps, feature_data_end, offset) ==
  IF offset + 2 > feature_data_end
  THEN [offset |-> feature_data_end, points |-> << >>, refs |-> << >>]
  ELSE LET n_elements == read_u16(ps.data, offset)
       IN EdgeRefLoop(ps, feature_data_end, unwrap_or(n_elements.opt, 0),
                      n_elements.offset, << >>, << >>)

GeometryTypeOf(geom_type_code) ==
  CASE geom_type_code = 1 -> "Point"
    [] geom_type_code = 2 -> "Line"
    [] geom_type_code = 4 -> "Area"
    [] geom_type_code = 8 -> "Point"
    [] OTHER -> "Unknown"

\* `let geometry = match geometry_type { ... }`
MakeGeometry(geometry_type, geometry_points) ==
  CASE geometry_type = "Point" ->
         IF geometry_points = << >>
         THEN Cm93Geometry_point(0, 0)
         ELSE Cm93Geometry_point(geometry_points[1].lat, geometry_points[1].lon)
    [] geometry_type = "Line" -> Cm93Geometry_line(geometry_points)
    [] OTHER -> Cm93Geometry_area(geometry_points, << 0 >>)

\* Mutant of FeatureLoopBreak: the buffer length is not checked.
FeatureLoopBreak_NoLengthCheck(ps) == ps.offset >= feature_section_end(ps)

\* `if offset + 4 > data.len() || offset >= feature_section_end { break; }`
FeatureLoopBreak(ps) ==
  \/ ps.offset + 4 > Len(ps.data)
  \/ ps.offset >= feature_section_end(ps)

\* Mutant of SeekRecordEnd: the cursor stays where the payload reads left it.
SeekRecordEnd_Consumed(feature_data_end, consumed_end) == consumed_end

\* `offset = feature_data_end`: the seek that ends every parsed record, whatever
\* the payload reads consumed.
SeekRecordEnd(feature_data_end, consumed_end) == feature_data_end

\* One iteration of `for feat_idx in 0..header.feature_count`.
FeatureStep(ps) ==
  IF ps.feat_idx >= ps.header.feature_count THEN [ps EXCEPT !.pc = "ok"]
  ELSE IF FeatureLoopBreak(ps)
  THEN [ps EXCEPT !.pc = "ok"]
  ELSE IF ps.offset + 1 >= Len(ps.data)
  THEN [ps EXCEPT !.pc = "panic"]   \* data[offset] / data[offset + 1] out of bounds
  ELSE
    LET feature_start == ps.offset
        object_type == ByteAt(ps.data, feature_start)
        geom_prim == ByteAt(ps.data, feature_start + 1)
        desc == read_u16(ps.data, feature_start + 2)
        obj_desc_bytes == unwrap_or(desc.opt, 0)
        offset == desc.offset
        actual == actual_data_bytes(geom_prim, obj_desc_bytes)
        feature_data_end == offset + actual
        geom_type_code == geom_prim % 16
        geometry_type == GeometryTypeOf(geom_type_code)
        locals == [kind |-> "break", feature_start |-> feature_start,
                   object_type |-> object_type, geom_prim |-> geom_prim,
                   obj_desc_bytes |-> obj_desc_bytes,
                   actual_data_bytes |-> actual,
                   header_end |-> offset, consumed_end |-> offset,
                   refs |-> << >>]
    IN IF feature_data_end > feature_section_end(ps)
       THEN [ps EXCEPT !.pc = "ok", !.offset = offset, !.last = locals]
       ELSE IF geometry_type = "Unknown"
       THEN [ps EXCEPT !.offset = SeekRecordEnd(feature_data_end, offset),
                       !.feat_idx = ps.feat_idx + 1,
                       !.last = [locals EXCEPT !.kind = "skipped"]]
       ELSE
         LET payload ==
               CASE geom_type_code \in {2, 4} -> LinePayload(ps, feature_data_end, offset)
                 [] geom_type_code = 1 ->
                      PointPayload(ps, feature_data_end, offset, point2d_array)
                 [] OTHER -> PointPayload(ps, feature_data_end, offset, point3d_array)
             feature == [object_class |-> object_type,
                         feature_id |-> ps.feat_idx,
                         geometry_type |-> geometry_type,
                         geometry |-> MakeGeometry(geometry_type, payload.points),
                         attributes |-> << >>]
         IN [ps EXCEPT !.offset = SeekRecordEnd(feature_data_end, payload.offset),
                       !.feat_idx = ps.feat_idx + 1,
                       !.features = Append(ps.features, feature),
                       !.last = [locals EXCEPT !.kind = "emitted",
                                               !.consumed_end = payload.offset,
                                               !.refs = payload.refs]]

\* One step of the parse, whichever loop it is in.
ParseStep(ps) ==
  IF ps.pc = "edges" THEN EdgeStep(ps)
  ELSE IF ps.pc = "features" THEN FeatureStep(ps)
  ELSE ps

\* Cm93Cell::parse run to its end.
RECURSIVE RunParse(_)
RunParse(ps) ==
  IF ps.pc \in {"edges", "features"} THEN RunParse(ParseStep(ps)) ELSE ps

Cm93Cell_parse(file) == RunParse(ParseBegin(file))

\* Number of cipher calls applied to one buffer.
MaxCipherOps == 2

NoParse ==
  /\ parse_file = << >>
  /\ parse_origin = << >>
  /\ parse_state = ParseIdle

\* No reader opened (the other components' specifications keep these values).
NoReader ==
  /\ cell_cache = << >>
  /\ max_cache_size = 0
  /\ bounds_index = << >>
  /\ indexed_scales = {}
  /\ header_reads = << >>
  /\ query = [pc |-> "none"]
  /\ last_op = [op |-> "none"]

\* Nothing asked of the components built on top of the chart-reading ones,
\* but for the one named.
AppIdleExcept(component) ==
  /\ component = "zoom" \/ zoom_call = [pc |-> "none"]
  /\ component = "tile" \/ (tile_file = << >> /\ tile_call = [pc |-> "none"])
  /\ component = "mbtiles" \/ (mbt_tiles = {} /\ mbt_last = [op |-> "none"])
  /\ component = "metadata" \/ (meta_table = << >> /\ meta_last = [op |-> "none"] /\ meta_calls = << >>)
  /\ component = "import" \/ (imp_input = [mode |-> "none"] /\ imp_dir = {} /\ imp_threads = << >> /\ imp_run = [phase |-> "none"])
  /\ component = "convert" \/ (conv_dir = << >> /\ conv_calls = << >>)
  /\ component = "import" \/ imp_events = << >>
  /\ component = "cancel" \/ imp_cancel = FALSE
  /\ component = "bsb" \/ (bsb_file = << >> /\ bsb_call = [pc |-> "none"])
  /\ component = "writer" \/ (mbw_table = None /\ mbw_writer = << >>)
  /\ component = "gps" \/ (gps_stop_flag = FALSE /\ gps_handle = None /\ gps_status = [status |-> "none"] /\ gps_data = 0 /\ gps_threads = << >> /\ gps_mgr = [pc |-> "none"])

AppIdle == AppIdleExcept("none")

CipherIdle ==
  /\ cipher_orig = << >>
  /\ cipher_buf = << >>
  /\ cipher_hist = << >>

\* The chart-reading components at rest.
ChartIdle == CipherIdle /\ NoParse /\ NoReader

InitCipher ==
  /\ cipher_orig \in { << b >> : b \in Bytes }
  /\ cipher_buf = cipher_orig
  /\ cipher_hist = << >>
  /\ NoParse
  /\ NoReader
  /\ AppIdle

EncodeBuffer ==
  /\ Len(cipher_hist) < MaxCipherOps
  /\ cipher_buf' = encode_buffer(cipher_buf)
  /\ cipher_hist' = Append(cipher_hist, "encode")
  /\ UNCHANGED << app_vars, cipher_orig, parse_vars, reader_vars >>

DecodeBuffer ==
  /\ Len(cipher_hist) < MaxCipherOps
  /\ cipher_buf' = decode_buffer(cipher_buf)
  /\ cipher_hist' = Append(cipher_hist, "decode")
  /\ UNCHANGED << app_vars, cipher_orig, parse_vars, reader_vars >>

NextCipher == EncodeBuffer \/ DecodeBuffer

SpecCipher == InitCipher /\ [][NextCipher]_vars

\* C1: for every byte b, decode_byte(encode_byte(b)) = b and
\* encode_byte(decode_byte(b)) = b: the encode table is a permutation of 0..255
\* and the decode table is its inverse.
C1_RoundTrip ==
  /\ cipher_hist = << "encode", "decode" >> => cipher_buf = cipher_orig
  /\ cipher_hist = << "decode", "encode" >> => cipher_buf = cipher_orig

(***************************************************************************)
(* Cell files for the parser: written as plain bytes in the layout of      *)
(* cell.rs (prolog, header, edges, features) and enciphered to disk.       *)
(***************************************************************************)
U16LE(n) == << n % 256, n \div 256 >>
U32LE(n) == << n % 256, (n \div 256) % 256, (n \div 65536) % 256, n \div 16777216 >>

RECURSIVE FloorLog2(_)
FloorLog2(n) == IF n < 2 THEN 0 ELSE 1 + FloorLog2(n \div 2)

\* The little-endian bytes of the double holding the whole number n, |n| < 2^21.
F64OfInt(n) ==
  IF n = 0 THEN F64Zero
  ELSE LET mag == Abs(n)
           k == FloorLog2(mag)
           top20 == (mag - 2 ^ k) * 2 ^ (20 - k)
           exp == 1023 + k
       IN << 0, 0, 0, 0, top20 % 256, (top20 \div 256) % 256,
             (exp % 16) * 16 + (top20 \div 65536),
             (IF n < 0 THEN 128 ELSE 0) + (exp \div 16) >>

Zeros(n) == [i \in 1 .. n |-> 0]

RECURSIVE Flatten(_)
Flatten(seqs) == IF seqs = << >> THEN << >> ELSE Head(seqs) \o Flatten(Tail(seqs))

\* Prolog (10 bytes) and header (128 bytes) with the given lengths, geographic
\* bounds, Mercator bounds and record counts; the other header fields are 0.
CellHeaderBytes(vlen, flen, geo, merc, edge_count, feature_count) ==
  U16LE(HEADER_LEN) \o U32LE(vlen) \o U32LE(flen)
  \o F64OfInt(geo[1]) \o F64OfInt(geo[2]) \o F64OfInt(geo[3]) \o F64OfInt(geo[4])
  \o F64OfInt(merc[1]) \o F64OfInt(merc[2]) \o F64OfInt(merc[3]) \o F64OfInt(merc[4])
  \o U16LE(edge_count) \o Zeros(28) \o U16LE(feature_count) \o Zeros(32)

\* One edge record: npoints, then (x, y) per point.
EdgeBytes(points) ==
  U16LE(Len(points))
  \o Flatten([i \in 1 .. Len(points) |-> U16LE(points[i].x) \o U16LE(points[i].y)])

\* One feature record: the 4-byte header, then the payload.
FeatureBytes(object_type, geom_prim, obj_desc_bytes, payload) ==
  << object_type, geom_prim >> \o U16LE(obj_desc_bytes) \o payload

\* The payload of a line or area: n_elements, then the edge references.
RefsPayload(refs) ==
  U16LE(Len(refs)) \o Flatten([i \in 1 .. Len(refs) |-> U16LE(refs[i])])

SeqsUpTo(S, n) == UNION { [1 .. k -> S] : k \in 0 .. n }

\* Bounds of the parser's inputs.
MaxEdgePoints == 2
MaxRefs == 2
MaxDescBytes == 8
MaxSlack == 1

PointA == [x |-> 1, y |-> 1]
PointC == [x |-> 2, y |-> 2]
EdgeChoices == SeqsUpTo({PointA, PointC}, MaxEdgePoints)
\* References: edge 0, edge 1, edge 1 reversed, an index with no edge.
RefChoices == {0, 1, 8193, 7}
\* Declared sizes: the small ones, and sizes that overrun any section.
DescChoices == (0 .. MaxDescBytes) \cup {255, 256, 65535}

GeoBounds == << 1, 2, 3, 4 >>
MercBounds == << 0, 0, 65535, 131070 >>

\* Family 1: two edges of any content, one line feature over any references.
EdgeFamily ==
  { LET edges == EdgeBytes(e0) \o EdgeBytes(e1)
        feature == FeatureBytes(35, 2, 4 + 2 + 2 * Len(refs), RefsPayload(refs))
    IN CellHeaderBytes(Len(edges), Len(feature), GeoBounds, MercBounds, 2, 1)
       \o edges \o feature
    : e0 \in EdgeChoices, e1 \in EdgeChoices, refs \in SeqsUpTo(RefChoices, MaxRefs) }

FixedEdges == EdgeBytes(<< PointA, PointC >>) \o EdgeBytes(<< PointC, PointA >>)

\* Family 2: a first feature header of any kind and declared size, followed by
\* point records; the second record is read wherever the first one ends.
HeaderFamily ==
  { LET tail == Flatten([i \in 1 .. 3 |-> FeatureBytes(7, 1, 2, U16LE(0))])
        features == FeatureBytes(44, geom_prim, desc, << >>) \o tail
    IN CellHeaderBytes(Len(FixedEdges), Len(features), GeoBounds, MercBounds, 2, 3)
       \o FixedEdges \o features
    : geom_prim \in Bytes, desc \in DescChoices }

\* Family 3: a well-formed cell (two edges, a line over both and a point) cut at
\* any length, with prolog lengths and record counts off by up to MaxSlack.
FixedFeatures ==
  FeatureBytes(35, 2, 10, RefsPayload(<< 0, 1 >>)) \o FeatureBytes(7, 1, 2, U16LE(0))

FullLen == HEADER_LEN + Len(FixedEdges) + Len(FixedFeatures)

SlackFamily ==
  { CellHeaderBytes(Len(FixedEdges) + dv, Len(FixedFeatures) + df,
                    GeoBounds, MercBounds, 2 + de, 2 + dn)
    \o FixedEdges \o FixedFeatures
    : dv \in (0 - MaxSlack) .. MaxSlack, df \in (0 - MaxSlack) .. MaxSlack,
      de \in 0 .. MaxSlack, dn \in 0 .. MaxSlack }

CutLengths == {0, 127, 128, 137} \cup (HEADER_LEN .. FullLen)

\* The inputs as (complete file, length kept): families 1 and 2 whole, family 3
\* cut at every length.
ParseInputs ==
  { << full, Len(full) >> : full \in EdgeFamily \cup HeaderFamily }
  \cup (SlackFamily \X CutLengths)

InitParse ==
  /\ CipherIdle
  /\ \E input \in ParseInputs :
       /\ parse_origin = encode_buffer(input[1])
       /\ parse_file = SubSeq(parse_origin, 1, input[2])
  /\ parse_state = ParseIdle
  /\ NoReader
  /\ AppIdle

\* Cm93Cell::parse: open, read, check, decipher, parse the header.
Parse ==
  /\ parse_state.pc = "idle"
  /\ parse_state' = ParseBegin(parse_file)
  /\ UNCHANGED << app_vars, cipher_vars, parse_file, parse_origin, reader_vars >>

\* One iteration (or the exit) of the edge loop of parse_features.
ParseEdge ==
  /\ parse_state.pc = "edges"
  /\ parse_state' = EdgeStep(parse_state)
  /\ UNCHANGED << app_vars, cipher_vars, parse_file, parse_origin, reader_vars >>

\* One iteration (or the exit) of the feature loop of parse_features.
ParseFeature ==
  /\ parse_state.pc = "features"
  /\ parse_state' = FeatureStep(parse_state)
  /\ UNCHANGED << app_vars, cipher_vars, parse_file, parse_origin, reader_vars >>

NextParse == Parse \/ ParseEdge \/ ParseFeature

SpecParse == InitParse /\ [][NextParse]_vars

(***************************************************************************)
(* Claims about the cell parser (SpecParse).                               *)
(***************************************************************************)
Last == parse_state.last

\* The latest feature-loop iteration parsed a record: its header was read and
\* its declared size fits in the feature section.
RecordParsed ==
  /\ parse_state.pc \in {"features", "ok"}
  /\ Last.kind \in {"emitted", "skipped"}

\* C2: after every successfully parsed feature record the cursor is exactly
\* feature_start + 4 + actual_data_bytes, for every geometry kind (unknown kinds
\* included) and however many payload bytes were consumed.
C2_NextRecordAligned ==
  RecordParsed =>
    parse_state.offset = Last.feature_start + 4 + Last.actual_data_bytes

\* C2 witness: a second record was emitted whose payload reads stopped short of
\* its declared end.
C2_Witness ==
  /\ RecordParsed
  /\ Last.kind = "emitted"
  /\ parse_state.feat_idx >= 2
  /\ Last.consumed_end < Last.feature_start + 4 + Last.actual_data_bytes

HasOverhead(geom_prim) ==
  \/ geom_prim % 16 \in {2, 4}
  \/ Bit(geom_prim, 7) = 1

HeaderRead == parse_state.pc \in {"features", "ok"} /\ Last.kind # "none"

\* C3 as stated: actual_data_bytes = obj_desc_bytes - 4 when the low nibble of
\* geom_prim is 2 or 4 or bit 7 is set, and obj_desc_bytes otherwise.
C3_Original ==
  HeaderRead =>
    Last.actual_data_bytes =
      IF HasOverhead(Last.geom_prim)
      THEN Last.obj_desc_bytes - 4
      ELSE Last.obj_desc_bytes

\* C3 amended: the 4 bytes are subtracted only when obj_desc_bytes >= 4; a
\* smaller obj_desc_bytes is taken as it is.
C3_SizeCorrection ==
  HeaderRead =>
    Last.actual_data_bytes =
      IF HasOverhead(Last.geom_prim) /\ Last.obj_desc_bytes >= 4
      THEN Last.obj_desc_bytes - 4
      ELSE Last.obj_desc_bytes

\* C3 witness: an attribute-only header (bit 7 set, no line/area kind) whose
\* size was corrected.
C3_Witness ==
  /\ HeaderRead
  /\ Bit(Last.geom_prim, 7) = 1
  /\ Last.geom_prim % 16 \notin {2, 4}
  /\ Last.obj_desc_bytes >= 4
  /\ Last.kind = "skipped"

NoConsecutiveEqual(points) ==
  \A i \in 1 .. (Len(points) - 1) : points[i] # points[i + 1]

\* The latest iteration emitted a line or area from two or more references.
LineFromEdges ==
  /\ RecordParsed
  /\ Last.kind = "emitted"
  /\ Last.geom_prim % 16 \in {2, 4}
  /\ Len(Last.refs) >= 2

LastFeature == parse_state.features[Len(parse_state.features)]

\* C4 as stated: a line or area assembled from two or more edge references has
\* no two equal consecutive vertices, whatever the edges and flags.
C4_Original == LineFromEdges => NoConsecutiveEqual(LastFeature.geometry.points)

\* The edge a reference appends, in its reference direction.
OrientedEdge(ref) ==
  LET batch == to_geo_batch(parse_state.transform,
                            parse_state.edge_geometries[(ref.edge_index % 8192) + 1])
  IN IF Bit(ref.edge_index, 13) = 1 THEN Reverse(batch) ELSE batch

\* Every reference names an edge that exists, is non-empty and has no two equal
\* consecutive vertices, and every edge after the first starts where the edge
\* before it ends.
EdgesChain(refs) ==
  /\ \A i \in 1 .. Len(refs) :
       /\ (refs[i].edge_index % 8192) < Len(parse_state.edge_geometries)
       /\ OrientedEdge(refs[i]) # << >>
       /\ NoConsecutiveEqual(OrientedEdge(refs[i]))
  /\ \A i \in 2 .. Len(refs) :
       OrientedEdge(refs[i])[1] =
         OrientedEdge(refs[i - 1])[Len(OrientedEdge(refs[i - 1]))]

\* C4 amended: when the appended edges form a chain (EdgesChain), the assembled
\* line or area has no two equal consecutive vertices.
C4_JunctionDedup ==
  (LineFromEdges /\ EdgesChain(Last.refs)) =>
    NoConsecutiveEqual(LastFeature.geometry.points)

\* C4 witness: a line over two chained edges, the second one reversed.
C4_Witness ==
  /\ LineFromEdges
  /\ EdgesChain(Last.refs)
  /\ Bit(Last.refs[2].edge_index, 13) = 1
  /\ Len(LastFeature.geometry.points) >= 3

\* The record of the latest emitted feature lies wholly inside the buffer.
LastRecordInBuffer ==
  /\ RecordParsed
  /\ Last.kind = "emitted"
  /\ parse_state.offset <= Len(parse_file)

\* C5: parse fails exactly when the file has fewer than 138 bytes; otherwise it
\* never indexes outside the buffer, emits at most feature_count features, and a
\* feature whose record lies inside the buffer is the one the complete file gives.
C5_TruncationTolerated ==
  /\ parse_state.pc # "panic"
  /\ parse_state.pc = "err" => Len(parse_file) < HEADER_LEN
  /\ parse_state.pc \in {"edges", "features", "ok"} =>
       /\ Len(parse_file) >= HEADER_LEN
       /\ Len(parse_state.features) <= parse_state.header.feature_count
  /\ LastRecordInBuffer =>
       LET whole == Cm93Cell_parse(parse_origin).features
       IN /\ Len(parse_state.features) <= Len(whole)
          /\ LastFeature = whole[Len(parse_state.features)]

\* C5 witness: a file cut inside its feature section was parsed to the end and
\* kept the feature that precedes the cut.
C5_Witness ==
  /\ parse_state.pc = "ok"
  /\ Len(parse_file) < Len(parse_origin)
  /\ Len(parse_file) > feature_section_start(parse_state)
  /\ Len(parse_state.features) = 1
  /\ Len(parse_state.features) < Len(Cm93Cell_parse(parse_origin).features)

(***************************************************************************)
(* mod.rs: the chart database.  cell_paths maps (scale, cell_index) to the *)
(* cell file; the files are the ones found when the database was opened.   *)
(***************************************************************************)
\* Bounds of the database and of the reader's inputs.
MaxCellIndex == 2
MaxCacheSize == 2
MaxHeaderReads == 2

Scales == {"A", "B"}

\* A cell listed at scale A whose file stops one byte short of the header.
ShortCell == << "A", MaxCellIndex + 1 >>

\* Cm93Database.cell_paths (its keys): some cells at scale A, one at scale B.
cell_paths ==
  ({"A"} \X (1 .. MaxCellIndex)) \cup {ShortCell, << "B", 1 >>}

\* Cm93Database::get_cell_path
get_cell_path(cell_index, scale) ==
  IF << scale, cell_index >> \in cell_paths
  THEN Some(<< scale, cell_index >>)
  ELSE None

\* Cm93Database::list_cells
list_cells(scale) == { key[2] : key \in { k \in cell_paths : k[1] = scale } }

\* The cell files on disk.  Cell i covers longitudes 2(i-1) .. 2i and latitudes
\* 0 .. 2.  At scale A a cell holds two edges, a line over both and a point; the
\* cell at scale B is a bare header of 138 bytes.
CellBytes(key) ==
  IF key[1] = "A"
  THEN CellHeaderBytes(Len(FixedEdges), Len(FixedFeatures),
                       << 2 * (key[2] - 1), 0, 2 * key[2], 2 >>, MercBounds, 2, 2)
       \o FixedEdges \o FixedFeatures
  ELSE CellHeaderBytes(0, 0, << 2 * (key[2] - 1), 0, 2 * key[2], 2 >>,
                       MercBounds, 0, 0)

\* The function f with its values computed once and kept (f @@ << >> = f).
Tabulated(f) == f @@ << >>

CellFiles ==
  Tabulated([key \in cell_paths |->
               IF key = ShortCell
               THEN SubSeq(encode_buffer(CellBytes(key)), 1, HEADER_LEN - 1)
               ELSE encode_buffer(CellBytes(key))])

(***************************************************************************)
(* cell.rs / geometry.rs: what the reader uses of a cell.                  *)
(***************************************************************************)
HEADER_ONLY_LEN == 150

\* The four doubles read in a row from `offset` of the deciphered header.
HeaderBoundsAt(header_data, offset) ==
  LET lon_min == read_f64(header_data, offset)
      lat_min == read_f64(header_data, lon_min.offset)
      lon_max == read_f64(header_data, lat_min.offset)
      lat_max == read_f64(header_data, lon_max.offset)
  IN << unwrap_or(lon_min.opt, F64Zero), unwrap_or(lat_min.opt, F64Zero),
        unwrap_or(lon_max.opt, F64Zero), unwrap_or(lat_max.opt, F64Zero) >>

\* One read of up to 150 bytes into a zeroed buffer; the bytes read are
\* deciphered in place.
HeaderOnlyData(file) ==
  LET bytes_read == IF Len(file) < HEADER_ONLY_LEN THEN Len(file) ELSE HEADER_ONLY_LEN
  IN [bytes_read |-> bytes_read,
      header_data |-> decode_buffer(SubSeq(file, 1, bytes_read))
                      \o Zeros(HEADER_ONLY_LEN - bytes_read)]

parse_header_only_NoProlog(file) ==
  LET read == HeaderOnlyData(file)
  IN IF read.bytes_read < HEADER_LEN THEN None
     ELSE Some(HeaderBoundsAt(read.header_data, 0))

\* Cm93Cell::parse_header_only: Err (None) on a short read, else the bounds.
parse_header_only(file) ==
  LET read == HeaderOnlyData(file)
  IN IF read.bytes_read < HEADER_LEN THEN None
     ELSE Some(HeaderBoundsAt(read.header_data, 10))

\* The Cm93Cell that Cm93Cell::parse builds from a finished parse, None when
\* the parse returned Err.
Cm93Cell_new(ps, scale, cell_index) ==
  IF ps.pc # "ok" THEN None
  ELSE Some([header |-> ps.header, cell_index |-> cell_index, scale |-> scale,
             transform |-> ps.transform, features |-> ps.features])

\* The files do not change while the reader is open, so what the two parsers
\* return is a function of the path: Cm93Cell::parse(&path, scale, cell_index)
\* and Cm93Cell::parse_header_only(&path).
ParsedCells ==
  Tabulated([key \in cell_paths |->
               Cm93Cell_new(Cm93Cell_parse(CellFiles[key]), key[1], key[2])])
ParsedHeaders ==
  Tabulated([key \in cell_paths |-> parse_header_only(CellFiles[key])])

SetMin(S) == CHOOSE m \in S : \A x \in S : m <= x

\* Cm93Geometry::bounds: [min_lon, min_lat, max_lon, max_lat], zeros when empty;
\* otherwise the running min / max over the points.
Cm93Geometry_bounds(geometry) ==
  IF geometry.points = << >> THEN << 0, 0, 0, 0 >>
  ELSE LET lons == { geometry.points[i].lon : i \in 1 .. Len(geometry.points) }
           lats == { geometry.points[i].lat : i \in 1 .. Len(geometry.points) }
       IN << SetMin(lons), SetMin(lats), SetMax(lons), SetMax(lats) >>

\* Cm93Geometry::is_valid
Cm93Geometry_is_valid(geometry) ==
  CASE geometry.geom_type = 1 -> Len(geometry.points) > 0
    [] geometry.geom_type = 2 -> Len(geometry.points) >= 2
    [] geometry.geom_type = 4 -> Len(geometry.points) >= 3
    [] OTHER -> FALSE

(***************************************************************************)
(* reader.rs: Cm93Reader.  The methods are operators on `self`, the record *)
(* of the reader's fields, and return the fields after the call together   *)
(* with the call's result.  A HashMap is a function on its key set; its    *)
(* iteration order is unspecified, so "the first key" is any key.          *)
(***************************************************************************)
DEFAULT_CACHE_SIZE == 500

EmptyMap == << >>
MapInsert(map, k, v) == [x \in (DOMAIN map) \cup {k} |-> IF x = k THEN v ELSE map[x]]
MapLen(map) == Cardinality(DOMAIN map)

\* The outcomes of `map.keys().next()`.
FirstKeys(map) ==
  IF DOMAIN map = {} THEN {None} ELSE { Some(k) : k \in DOMAIN map }

\* The outcomes of the keys().next() of get_cell, None where it is not asked
\* (a hit, or a cache below its maximum size).
GetCellFirstKeys(key) ==
  IF key \notin DOMAIN cell_cache /\ MapLen(cell_cache) >= max_cache_size
  THEN FirstKeys(cell_cache)
  ELSE {None}

\* Cm93Reader::open
Cm93Reader_open ==
  [cell_cache |-> EmptyMap,
   max_cache_size |-> DEFAULT_CACHE_SIZE,
   bounds_index |-> EmptyMap,
   indexed_scales |-> {}]

\* The reader's fields in the current state.
Self ==
  [cell_cache |-> cell_cache,
   max_cache_size |-> max_cache_size,
   bounds_index |-> bounds_index,
   indexed_scales |-> indexed_scales]

\* get_cell on a miss: the keys evicted before the load (at most one).
EvictFirst(self, first_key) ==
  IF MapLen(self.cell_cache) >= self.max_cache_size /\ first_key.some
  THEN {first_key.val}
  ELSE {}

\* get_cell on a miss: `Cm93Cell::parse(&path, ...)` for the path found, None
\* when there is no path (CellNotFound) or the parse returns Err.
LoadCell(path) == IF path.some THEN ParsedCells[path.val] ELSE None

\* get_cell on a miss, after the eviction and the load: `?` returns Err on a
\* failed load, otherwise the bounds and the cell are inserted.
InsertCell(self, key, evicted, cell) ==
  LET cache == [k \in (DOMAIN self.cell_cache) \ evicted |-> self.cell_cache[k]]
  IN IF ~cell.some
     THEN [self |-> [self EXCEPT !.cell_cache = cache],
           ok |-> FALSE, hit |-> FALSE, evicted |-> evicted]
     ELSE [self |-> [self EXCEPT
                       !.bounds_index = MapInsert(@, key, Cm93Cell_bounds(cell.val)),
                       !.cell_cache = MapInsert(cache, key, cell.val)],
           ok |-> TRUE, hit |-> FALSE, evicted |-> evicted]

\* Cm93Reader::get_cell; first_key is what keys().next() yields if it is asked.
\* Returns ok (Ok / Err), hit (served from the cache) and the keys evicted.
get_cell(self, scale, cell_index, first_key) ==
  IF << scale, cell_index >> \in DOMAIN self.cell_cache
  THEN [self |-> self, ok |-> TRUE, hit |-> TRUE, evicted |-> {}]
  ELSE InsertCell(self, << scale, cell_index >>, EvictFirst(self, first_key),
                  LoadCell(get_cell_path(cell_index, scale)))

\* The loop of ensure_scale_indexed over the cells listed at the scale; the
\* iterations touch different keys, so their order does not matter.  read is
\* the cells whose header it reads (listed, with a path, not yet in the index);
\* the index gains the bounds of those whose header could be read.
IndexLoop(index, scale) ==
  LET read == { key \in { << scale, c >> : c \in list_cells(scale) } :
                  key \notin DOMAIN index
                  /\ get_cell_path(key[2], key[1]).some }
      indexed == { key \in read : ParsedHeaders[key].some }
  IN [read |-> read,
      bounds_index |-> [key \in (DOMAIN index) \cup indexed |->
                          IF key \in DOMAIN index THEN index[key]
                          ELSE ParsedHeaders[key].val]]

ensure_scale_indexed_UnlessFailed(self, scale) ==
  IF scale \in self.indexed_scales THEN [self |-> self, read |-> {}]
  ELSE LET loop == IndexLoop(self.bounds_index, scale)
       IN [self |-> [self EXCEPT
                       !.bounds_index = loop.bounds_index,
                       !.indexed_scales =
                          IF loop.read \subseteq DOMAIN loop.bounds_index
                          THEN @ \cup {scale} ELSE @],
           read |-> loop.read]

\* Cm93Reader::ensure_scale_indexed; read is the set of cell files it read.
ensure_scale_indexed(self, scale) ==
  IF scale \in self.indexed_scales THEN [self |-> self, read |-> {}]
  ELSE LET loop == IndexLoop(self.bounds_index, scale)
       IN [self |-> [self EXCEPT !.bounds_index = loop.bounds_index,
                                 !.indexed_scales = @ \cup {scale}],
           read |-> loop.read]

\* `!(cell_max_lat < min_lat || cell_min_lat > max_lat || ...)` on the index
\* entry [min_lon, min_lat, max_lon, max_lat].
CellMatches(bounds, box) ==
  ~(\/ F64Less(bounds[4], box.min_lat)
    \/ F64Greater(bounds[2], box.max_lat)
    \/ F64Less(bounds[3], box.min_lon)
    \/ F64Greater(bounds[1], box.max_lon))

\* The query of find_cells_in_bounds on the index left by ensure_scale_indexed.
QueryIndex(ensured, scale, box) ==
  [self |-> ensured.self,
   read |-> ensured.read,
   matching |->
     { key[2] : key \in { k \in DOMAIN ensured.self.bounds_index :
                            /\ k[1] = scale
                            /\ CellMatches(ensured.self.bounds_index[k], box) } }]

\* Cm93Reader::find_cells_in_bounds; matching is the returned cell indices
\* (in the index's iteration order, which the model leaves open).
find_cells_in_bounds(self, scale, box) ==
  QueryIndex(ensure_scale_indexed(self, scale), scale, box)

\* The feature filter of get_features_in_bounds: the feature's bounds
\* [min_lon, min_lat, max_lon, max_lat] against the query box, compared as
\* doubles.
FeatureMatches(bounds, box) ==
  ~(\/ F64Less(LongitudeDouble(bounds[3]), box.min_lon)
    \/ F64Less(box.max_lon, LongitudeDouble(bounds[1]))
    \/ F64Less(LatitudeDouble(bounds[4]), box.min_lat)
    \/ F64Less(box.max_lat, LatitudeDouble(bounds[2])))

\* Whether feature i (from 1) of the cell passes the filter.
FeatureHit(cell, box, i) ==
  FeatureMatches(Cm93Geometry_bounds(cell.features[i].geometry), box)

\* The position (from 1) of the n-th feature of the cell that passes.
NthHit(cell, box, n) ==
  CHOOSE i \in 1 .. Len(cell.features) :
    /\ FeatureHit(cell, box, i)
    /\ Cardinality({ j \in 1 .. (i - 1) : FeatureHit(cell, box, j) }) = n - 1

\* The FeatureRefs pushed for one cell, in feature order.
CellFeatureRefs(cell, scale, cell_index, box) ==
  [n \in 1 .. Cardinality({ i \in 1 .. Len(cell.features) : FeatureHit(cell, box, i) }) |->
     [scale |-> scale, cell_index |-> cell_index,
      feature_index |-> NthHit(cell, box, n) - 1]]

clear_cache_DropsIndex(self) ==
  [self EXCEPT !.cell_cache = EmptyMap, !.bounds_index = EmptyMap]

\* Cm93Reader::clear_cache
clear_cache(self) == [self EXCEPT !.cell_cache = EmptyMap]

\* Cm93Reader::set_cache_size; victims are the keys its loop removes.
set_cache_size(self, size, victims) ==
  [self EXCEPT !.max_cache_size = size,
               !.cell_cache = [k \in (DOMAIN @) \ victims |-> @[k]]]

\* The sets of keys the loop of set_cache_size can remove: one "first key"
\* after another while the cache is larger than the new size.
Victims(map, size) ==
  { V \in SUBSET DOMAIN map :
      Cardinality(V) = (IF MapLen(map) > size THEN MapLen(map) - size ELSE 0) }

(***************************************************************************)
(* The reader as a state machine (SpecReader).  Callers hold the server's  *)
(* write lock for a whole call, so calls do not interleave; the loop of     *)
(* get_features_in_bounds takes one step per matched cell.                  *)
(*   query    pc "idle", or pc "loading" with the call's arguments, the     *)
(*            matched cells, those still to visit and the FeatureRefs so far*)
(*   last_op  the latest call: its name, arguments and result               *)
(***************************************************************************)
QueryBox(min_lat, min_lon, max_lat, max_lon) ==
  [min_lat |-> F64OfInt(min_lat), min_lon |-> F64OfInt(min_lon),
   max_lat |-> F64OfInt(max_lat), max_lon |-> F64OfInt(max_lon)]

\* Query boxes in whole degrees: over every cell, over the first cell only,
\* west of all cells, and over the first two cells away from their features
\* (which lie within a thousandth of a degree of the origin).
QueryBoxes ==
  { QueryBox(0, 0, 4, 2 * MaxCellIndex), QueryBox(0, 0, 1, 1),
    QueryBox(0, 0 - 3, 1, 0 - 1), QueryBox(1, 1, 2, 2) }

\* Cells asked of get_cell: the listed ones and one that the database lacks.
GetCellKeys == cell_paths \cup { << "A", 0 >> }

QueryIdle == [pc |-> "idle"]

InitReader ==
  /\ CipherIdle
  /\ NoParse
  /\ cell_cache = Cm93Reader_open.cell_cache
  /\ max_cache_size = Cm93Reader_open.max_cache_size
  /\ bounds_index = Cm93Reader_open.bounds_index
  /\ indexed_scales = Cm93Reader_open.indexed_scales
  /\ header_reads = [key \in cell_paths |-> 0]
  /\ query = QueryIdle
  /\ last_op = [op |-> "open"]
  /\ AppIdle

\* The fields of the reader after a call.
Commit(self) ==
  /\ cell_cache' = self.cell_cache
  /\ max_cache_size' = self.max_cache_size
  /\ bounds_index' = self.bounds_index
  /\ indexed_scales' = self.indexed_scales

\* Counts the header reads of a call.
CountHeaderReads(read) ==
  /\ \A key \in read : header_reads[key] < MaxHeaderReads
  /\ header_reads' = [key \in cell_paths |->
                        header_reads[key] + (IF key \in read THEN 1 ELSE 0)]

GetCellResult(key, call) ==
  [op |-> "get_cell", key |-> key, ok |-> call.ok, hit |-> call.hit,
   evicted |-> call.evicted, len_before |-> MapLen(cell_cache),
   max |-> max_cache_size]

FindResult(scale, box, call) ==
  [op |-> "find_cells_in_bounds", scale |-> scale, box |-> box,
   matching |-> call.matching, read |-> call.read,
   indexed_before |-> scale \in indexed_scales]

GetCellDone(key, call) ==
  /\ Commit(call.self)
  /\ last_op' = GetCellResult(key, call)

FindDone(scale, box, call) ==
  /\ Commit(call.self)
  /\ CountHeaderReads(call.read)
  /\ last_op' = FindResult(scale, box, call)

\* reader.get_cell(scale, cell_index)
GetCell ==
  /\ query.pc = "idle"
  /\ \E key \in GetCellKeys :
       \E first_key \in GetCellFirstKeys(key) :
         \E call \in { get_cell(Self, key[1], key[2], first_key) } :
           GetCellDone(key, call)
  /\ UNCHANGED << app_vars, cipher_vars, parse_vars, header_reads, query >>

\* reader.find_cells_in_bounds(scale, min_lat, min_lon, max_lat, max_lon)
FindCellsInBounds ==
  /\ query.pc = "idle"
  /\ \E scale \in Scales, box \in QueryBoxes :
       \E call \in { find_cells_in_bounds(Self, scale, box) } :
         FindDone(scale, box, call)
  /\ UNCHANGED << app_vars, cipher_vars, parse_vars, query >>

BeginDone(scale, box, call) ==
  /\ FindDone(scale, box, call)
  /\ query' = [pc |-> "loading", scale |-> scale, box |-> box,
               matched |-> call.matching, cell_indices |-> call.matching,
               features |-> << >>]

\* reader.get_features_in_bounds(...), up to its loop: find_cells_in_bounds.
GetFeaturesBegin ==
  /\ query.pc = "idle"
  /\ \E scale \in Scales, box \in QueryBoxes :
       \E call \in { find_cells_in_bounds(Self, scale, box) } :
         BeginDone(scale, box, call)
  /\ UNCHANGED << app_vars, cipher_vars, parse_vars >>

\* The FeatureRefs of one loop iteration: none when get_cell failed or the
\* cell is not in the cache.
LoadedRefs(key, call) ==
  IF call.ok /\ key \in DOMAIN call.self.cell_cache
  THEN CellFeatureRefs(call.self.cell_cache[key], key[1], key[2], query.box)
  ELSE << >>

LoadDone(key, call) ==
  /\ GetCellDone(key, call)
  /\ query' = [query EXCEPT !.cell_indices = @ \ {key[2]},
                            !.features = @ \o LoadedRefs(key, call)]

\* One iteration of the loop of get_features_in_bounds: get_cell, then the
\* feature filter on the cached cell.
GetFeaturesLoad ==
  /\ query.pc = "loading"
  /\ \E cell_index \in query.cell_indices :
       \E first_key \in GetCellFirstKeys(<< query.scale, cell_index >>) :
         \E call \in { get_cell(Self, query.scale, cell_index, first_key) } :
           LoadDone(<< query.scale, cell_index >>, call)
  /\ UNCHANGED << app_vars, cipher_vars, parse_vars, header_reads >>

\* get_features_in_bounds returns Ok(features).
GetFeaturesReturn ==
  /\ query.pc = "loading"
  /\ query.cell_indices = {}
  /\ last_op' = [op |-> "get_features_in_bounds", scale |-> query.scale,
                 box |-> query.box, matched |-> query.matched,
                 features |-> query.features]
  /\ query' = QueryIdle
  /\ UNCHANGED << app_vars, cipher_vars, parse_vars, cell_cache, max_cache_size,
                  bounds_index, indexed_scales, header_reads >>

\* reader.clear_cache()
ClearCache ==
  /\ query.pc = "idle"
  /\ Commit(clear_cache(Self))
  /\ last_op' = [op |-> "clear_cache"]
  /\ UNCHANGED << app_vars, cipher_vars, parse_vars, header_reads, query >>

\* reader.set_cache_size(size)
SetCacheSize ==
  /\ query.pc = "idle"
  /\ \E size \in 0 .. MaxCacheSize, victims \in SUBSET DOMAIN cell_cache :
       /\ victims \in Victims(cell_cache, size)
       /\ Commit(set_cache_size(Self, size, victims))
       /\ last_op' = [op |-> "set_cache_size", size |-> size, evicted |-> victims]
  /\ UNCHANGED << app_vars, cipher_vars, parse_vars, header_reads, query >>

NextReader ==
  \/ GetCell
  \/ FindCellsInBounds
  \/ GetFeaturesBegin
  \/ GetFeaturesLoad
  \/ GetFeaturesReturn
  \/ ClearCache
  \/ SetCacheSize

SpecReader == InitReader /\ [][NextReader]_vars

(***************************************************************************)
(* Claims about the reader (SpecReader).                                   *)
(***************************************************************************)
RefResolves(ref) ==
  /\ << ref.scale, ref.cell_index >> \in DOMAIN cell_cache
  /\ ref.feature_index < Len(cell_cache[<< ref.scale, ref.cell_index >>].features)

\* C6: while get_features_in_bounds runs, the matched cells it has visited stay
\* in the cache, and when it returns every matched cell is cached and every
\* returned FeatureRef names a feature of a cached cell.
C6_RefsResolve ==
  /\ query.pc = "loading" =>
       \A c \in query.matched \ query.cell_indices :
         << query.scale, c >> \in DOMAIN cell_cache
  /\ last_op.op = "get_features_in_bounds" =>
       /\ \A c \in last_op.matched : << last_op.scale, c >> \in DOMAIN cell_cache
       /\ \A i \in 1 .. Len(last_op.features) : RefResolves(last_op.features[i])

\* C7: the cache never holds more than max_cache_size cells, and a get_cell
\* miss on a cache at its maximum size evicts exactly one entry.
C7_CacheBounded ==
  /\ MapLen(cell_cache) <= max_cache_size
  /\ (last_op.op = "get_cell" /\ ~last_op.hit /\ last_op.len_before >= last_op.max)
       => Cardinality(last_op.evicted) = 1

\* a <= b on doubles that are not NaN.
F64AtMost(a, b) == ~F64Less(b, a)

\* The index entry [min_lon, min_lat, max_lon, max_lat] and the query box
\* overlap on both axes.
BoxesIntersect(bounds, box) ==
  /\ F64AtMost(bounds[1], box.max_lon) /\ F64AtMost(box.min_lon, bounds[3])
  /\ F64AtMost(bounds[2], box.max_lat) /\ F64AtMost(box.min_lat, bounds[4])

FindReturnsAllIntersecting ==
  last_op.op = "find_cells_in_bounds" =>
    \A key \in DOMAIN bounds_index :
      (key[1] = last_op.scale /\ BoxesIntersect(bounds_index[key], last_op.box))
        => key[2] \in last_op.matching

\* C8: no step removes an entry from bounds_index, and find_cells_in_bounds
\* returns every indexed cell of the scale whose bounds intersect the query
\* box, cached or not.
C8_IndexKept ==
  /\ [][DOMAIN bounds_index \subseteq DOMAIN bounds_index']_vars
  /\ []FindReturnsAllIntersecting

\* A cell that get_cell indexed (its header was never read on its own), that is
\* no longer cached, and that the latest find_cells_in_bounds returned.
C8_Witness ==
  /\ last_op.op = "find_cells_in_bounds"
  /\ \E c \in last_op.matching :
       /\ << last_op.scale, c >> \notin DOMAIN cell_cache
       /\ header_reads[<< last_op.scale, c >>] = 0

\* The doubles at offsets 10, 18, 26 and 34 of the deciphered file.
FileBounds(key) ==
  LET data == decode_buffer(CellFiles[key])
  IN << SubSeq(data, 11, 18), SubSeq(data, 19, 26),
        SubSeq(data, 27, 34), SubSeq(data, 35, 42) >>

\* C9: every entry of bounds_index holds the four doubles at offsets 10..42 of
\* the cell's deciphered file, whichever path inserted it.
C9_IndexIsHeaderBounds ==
  \A key \in DOMAIN bounds_index : bounds_index[key] = FileBounds(key)

\* The index holds an entry from parse_header_only alone, an entry from get_cell
\* alone, and an entry that both paths have written.
C9_Witness ==
  /\ \E key \in DOMAIN bounds_index :
       header_reads[key] = 1 /\ key \notin DOMAIN cell_cache
  /\ \E key \in DOMAIN bounds_index : header_reads[key] = 0
  /\ \E key \in DOMAIN bounds_index :
       header_reads[key] = 1 /\ key \in DOMAIN cell_cache

\* C10: no cell header is read more than once, and a find_cells_in_bounds call
\* at a scale that was already indexed reads no file.
C10_IndexedOnce ==
  /\ \A key \in cell_paths : header_reads[key] <= 1
  /\ (last_op.op = "find_cells_in_bounds" /\ last_op.indexed_before)
       => last_op.read = {}

\* A later find_cells_in_bounds at scale A, whose short cell could not be
\* indexed by the first one.
C10_Witness ==
  /\ last_op.op = "find_cells_in_bounds"
  /\ last_op.indexed_before
  /\ last_op.scale = ShortCell[1]
  /\ header_reads[ShortCell] = 1
  /\ ShortCell \notin DOMAIN bounds_index

(***************************************************************************)
(* Zoom level to CM93 scale: Cm93Reader::scale_for_zoom (reader.rs) and    *)
(* the free function scale_for_zoom the tile server uses (server.rs).      *)
(***************************************************************************)
\* Cm93Reader::scale_for_zoom: the match on the zoom, arm by arm.
Cm93Reader_scale_for_zoom(zoom) ==
  CASE zoom \in 0..3 -> "Z"
    [] zoom \in 4..5 -> "A"
    [] zoom \in 6..7 -> "B"
    [] zoom \in 8..9 -> "C"
    [] zoom \in 10..11 -> "D"
    [] zoom \in 12..13 -> "E"
    [] zoom \in 14..15 -> "F"
    [] OTHER -> "G"

\* scale_for_zoom with the F arm reaching one zoom further, into the catch-all.
scale_for_zoom_LateCatchAll(zoom) ==
  CASE zoom \in 0..3 -> "Z"
    [] zoom \in 4..5 -> "A"
    [] zoom \in 6..7 -> "B"
    [] zoom \in 8..9 -> "C"
    [] zoom \in 10..11 -> "D"
    [] zoom \in 12..13 -> "E"
    [] zoom \in 14..16 -> "F"
    [] OTHER -> "G"

\* scale_for_zoom of server.rs: the match on the zoom, arm by arm.
scale_for_zoom(zoom) ==
  CASE zoom \in 0..3 -> "Z"
    [] zoom \in 4..5 -> "A"
    [] zoom \in 6..7 -> "B"
    [] zoom \in 8..9 -> "C"
    [] zoom \in 10..11 -> "D"
    [] zoom \in 12..13 -> "E"
    [] zoom \in 14..15 -> "F"
    [] OTHER -> "G"

\* Every u8 zoom may be asked.
InitZoom ==
  /\ ChartIdle
  /\ AppIdleExcept("zoom")
  /\ zoom_call \in { [pc |-> "asked", zoom |-> z, reader |-> None, server |-> None] :
                       z \in Bytes }

\* The reader's method answers.
ReaderScaleForZoom ==
  /\ zoom_call.pc = "asked"
  /\ zoom_call.reader = None
  /\ zoom_call' =
       [zoom_call EXCEPT !.reader = Some(Cm93Reader_scale_for_zoom(zoom_call.zoom))]
  /\ UNCHANGED beside_zoom_vars

\* The tile server's function answers.
ServerScaleForZoom ==
  /\ zoom_call.pc = "asked"
  /\ zoom_call.server = None
  /\ zoom_call' = [zoom_call EXCEPT !.server = Some(scale_for_zoom(zoom_call.zoom))]
  /\ UNCHANGED beside_zoom_vars

NextZoom == ReaderScaleForZoom \/ ServerScaleForZoom

SpecZoom == InitZoom /\ [][NextZoom]_vars

\* The documented table: zoom 0..15 by position, everything above is G.
ZoomTable ==
  << "Z", "Z", "Z", "Z", "A", "A", "B", "B", "C", "C", "D", "D", "E", "E", "F", "F" >>

DocumentedScale(zoom) == IF zoom < Len(ZoomTable) THEN ZoomTable[zoom + 1] ELSE "G"

\* C11: for every u8 zoom both functions answer, with the scale of the
\* documented table (0-3 Z, 4-5 A, 6-7 B, 8-9 C, 10-11 D, 12-13 E, 14-15 F,
\* 16 and above G), and the reader's answer equals the server's.
C11_ScaleForZoom ==
  zoom_call.pc = "asked" =>
    /\ zoom_call.reader # None =>
         zoom_call.reader = Some(DocumentedScale(zoom_call.zoom))
    /\ zoom_call.server # None =>
         zoom_call.server = Some(DocumentedScale(zoom_call.zoom))
    /\ (zoom_call.reader # None /\ zoom_call.server # None) =>
         zoom_call.reader = zoom_call.server

\* Both functions have answered for the first zoom of the catch-all arm.
C11_Witness ==
  /\ zoom_call.pc = "asked"
  /\ zoom_call.zoom = Len(ZoomTable)
  /\ zoom_call.reader = Some("G")
  /\ zoom_call.server = Some("G")

(***************************************************************************)
(* server.rs: the tile server's GeoJSON output.  Coordinates are entries   *)
(* of MetresToDegrees, so a difference or span is 0 or at least 898 units  *)
(* and at most 3593 units, and the ratio of two spans is at most 4.01: on  *)
(* these values every comparison below decides as the code's comparison    *)
(* of the doubles does (|d| < 1e-7, span < 0.1, span < 0.01, span < 1e-8,  *)
(* ratio > 50.0), with the thresholds written in units of 1e-8 degree.     *)
(***************************************************************************)
\* const COORD_TOLERANCE: f64 = 1e-7, in units of 1e-8 degree.
COORD_TOLERANCE == 10

Lons(points) == { points[i].lon : i \in 1 .. Len(points) }
Lats(points) == { points[i].lat : i \in 1 .. Len(points) }

\* is_cell_boundary_connector
is_cell_boundary_connector(points) ==
  IF Len(points) < 2 THEN FALSE
  ELSE LET first_lon == points[1].lon
           first_lat == points[1].lat
           all_same_lon ==
             \A i \in 1 .. Len(points) :
               Abs(points[i].lon - first_lon) < COORD_TOLERANCE
           all_same_lat ==
             \A i \in 1 .. Len(points) :
               Abs(points[i].lat - first_lat) < COORD_TOLERANCE
           lat_span == SetMax(Lats(points)) - SetMin(Lats(points))
           lon_span == SetMax(Lons(points)) - SetMin(Lons(points))
       IN \/ Len(points) = 2 /\ (all_same_lon \/ all_same_lat)
          \/ all_same_lon /\ lat_span < (DegreeUnits \div 10)
          \/ all_same_lat /\ lon_span < (DegreeUnits \div 10)

\* is_metadata_object
is_metadata_object(object_class) == object_class >= 200

\* is_degenerate_area
is_degenerate_area(points) ==
  IF Len(points) < 3 THEN TRUE
  ELSE LET lon_span == SetMax(Lons(points)) - SetMin(Lons(points))
           lat_span == SetMax(Lats(points)) - SetMin(Lats(points))
           sliver ==
             /\ lon_span > 0
             /\ lat_span > 0
             /\ (IF lon_span > lat_span
                 THEN lon_span > 50 * lat_span
                 ELSE lat_span > 50 * lon_span)
             /\ (lon_span < (DegreeUnits \div 100) \/ lat_span < (DegreeUnits \div 100))
       IN \/ sliver
          \/ lon_span < 1
          \/ lat_span < 1

\* The GeoJSON geometry of feature_to_geojson: type and [lon, lat] pairs.
GeoJsonGeometry(geometry_type, points) ==
  LET coords == [i \in 1 .. Len(points) |-> << points[i].lon, points[i].lat >>]
  IN CASE geometry_type = "Point" ->
            IF points = << >> THEN None
            ELSE Some([geom_type |-> "Point", coordinates |-> << coords[1] >>])
       [] geometry_type = "Line" ->
            IF Len(coords) < 2 THEN None
            ELSE Some([geom_type |-> "LineString", coordinates |-> coords])
       [] OTHER ->
            IF Len(coords) < 3 THEN None
            ELSE Some([geom_type |-> "Polygon", coordinates |-> coords])

\* feature_to_geojson with the object-class filter left out.
feature_to_geojson_KeepsMetadata(feature) ==
  LET geom == feature.geometry
      shape == GeoJsonGeometry(feature.geometry_type, geom.points)
  IN IF \/ ~Cm93Geometry_is_valid(geom)
        \/ feature.geometry_type = "Line" /\ is_cell_boundary_connector(geom.points)
        \/ feature.geometry_type = "Area" /\ is_degenerate_area(geom.points)
        \/ shape = None
     THEN None
     ELSE Some([geometry |-> shape.val, obj_class |-> feature.object_class])

\* feature_to_geojson: None for a feature that is skipped, else the GeoJSON
\* feature (its geometry and object class; the other properties are styling).
feature_to_geojson(feature) ==
  LET geom == feature.geometry
      shape == GeoJsonGeometry(feature.geometry_type, geom.points)
  IN IF \/ ~Cm93Geometry_is_valid(geom)
        \/ is_metadata_object(feature.object_class)
        \/ feature.geometry_type = "Line" /\ is_cell_boundary_connector(geom.points)
        \/ feature.geometry_type = "Area" /\ is_degenerate_area(geom.points)
        \/ shape = None
     THEN None
     ELSE Some([geometry |-> shape.val, obj_class |-> feature.object_class])

\* The elements of a sequence of options that are Some, in order.
RECURSIVE Somes(_)
Somes(opts) ==
  IF opts = << >> THEN << >>
  ELSE (IF Head(opts).some THEN << Head(opts).val >> ELSE << >>) \o Somes(Tail(opts))

\* The database behind the server holds one cell, at this key.
TileScale == "A"
TileCellIndex == 1

\* The little-endian bytes of the double n / 2^shift, |n| < 2^21: those of n
\* with the exponent lowered by shift.
F64OfDyadic(n, shift) ==
  IF n = 0 THEN F64Zero
  ELSE LET whole == F64OfInt(n)
           exp == (whole[8] % 128) * 16 + (whole[7] \div 16) - shift
       IN [whole EXCEPT ![7] = (exp % 16) * 16 + (@ % 16),
                        ![8] = (IF n < 0 THEN 128 ELSE 0) + (exp \div 16)]

\* tile_bounds: `(x as f64 / n) * 360.0 - 180.0` with n = 2^z, a multiple of
\* 2^-z degree.
TileLongitude(z, x) == F64OfDyadic(x * 360 - 180 * 2 ^ z, z)

\* tile_bounds: `(PI * (1.0 - 2.0 * y as f64 / n)).sinh().atan().to_degrees()`,
\* the double it yields for the rows of the tiles asked: 0 on the equator row,
\* 11.178401873711781 one row of zoom 5 to the north, the opposite one row to
\* the south, 5.615985819155334 one row of zoom 6 to the north.
TileLatitude(z, y) ==
  CASE 2 * y = 2 ^ z -> F64Zero
    [] z = 5 /\ y = 15 -> << 66, 70, 138, 125, 87, 91, 38, 64 >>
    [] z = 5 /\ y = 17 -> << 66, 70, 138, 125, 87, 91, 38, 192 >>
    [] z = 6 /\ y = 31 -> << 168, 73, 144, 252, 196, 118, 22, 64 >>

\* tile_bounds
tile_bounds(z, x, y) ==
  [min_lon |-> TileLongitude(z, x), min_lat |-> TileLatitude(z, y + 1),
   max_lon |-> TileLongitude(z, x + 1), max_lat |-> TileLatitude(z, y)]

\* reader.get_features_in_bounds on that database: the cell, which is of scale
\* A, is indexed by its header bounds, loaded when the scale asked is its own
\* and the bounds meet the box, and filtered feature by feature.  cell is None
\* when the file does not parse.
TileFeatureRefs(file, cell, scale, box) ==
  LET header_bounds == parse_header_only(file)
  IN IF /\ scale = TileScale
        /\ header_bounds # None
        /\ CellMatches(header_bounds.val, box)
        /\ cell # None
     THEN CellFeatureRefs(cell.val, TileScale, TileCellIndex, box)
     ELSE << >>

\* The loop of get_tile_geojson over the FeatureRefs: look the cell and the
\* feature up, convert, keep what is Some.
get_tile_geojson(cell, feature_refs) ==
  Somes([n \in 1 .. Len(feature_refs) |->
           IF feature_refs[n].feature_index < Len(cell.val.features)
           THEN feature_to_geojson(cell.val.features[feature_refs[n].feature_index + 1])
           ELSE None])

\* The loop of Cm93Server::get_features_in_bounds: as above, with the
\* validity check made before the conversion as well.
get_features_in_bounds(cell, feature_refs) ==
  Somes([n \in 1 .. Len(feature_refs) |->
           IF feature_refs[n].feature_index < Len(cell.val.features)
           THEN LET feature == cell.val.features[feature_refs[n].feature_index + 1]
                IN IF ~Cm93Geometry_is_valid(feature.geometry) THEN None
                   ELSE feature_to_geojson(feature)
           ELSE None])

\* The cells served: two edges over points that share a longitude (PointA,
\* PointN), a latitude (PointA, PointE) or neither (PointN, PointE), and one
\* feature of any kind: a point or sounding, or a line or area over the first
\* edge or over both, of an object class on either side of 200.  A payload is
\* (geom_prim, obj_desc_bytes, bytes).
PointN == [x |-> 1, y |-> 2]
PointE == [x |-> 2, y |-> 1]
TilePoints == {PointA, PointN, PointE}
TileEdges == [1 .. 2 -> TilePoints]
TileClasses == {199, 200}
TilePayloads ==
  { << prim, 2, U16LE(0) >> : prim \in {1, 8} }
  \cup { << prim, 4 + Len(RefsPayload(refs)), RefsPayload(refs) >> :
            prim \in {2, 4}, refs \in {<< 0 >>, << 0, 1 >>} }

TileCells ==
  { LET edges == EdgeBytes(e0) \o EdgeBytes(e1)
        feature == FeatureBytes(class, payload[1], payload[2], payload[3])
    IN CellHeaderBytes(Len(edges), Len(feature), << 0, 0, 4, 4 >>, MercBounds, 2, 1)
       \o edges \o feature
    : e0 \in TileEdges, e1 \in TileEdges, class \in TileClasses,
      payload \in TilePayloads }

\* The requests made of the server, each a tile (z, x, y) for get_tile_geojson
\* and a box in whole degrees with a zoom for get_features_in_bounds:
\*   the tile north-east of the origin, and a box over the whole cell;
\*   the tile south-east of the origin, which meets the cell along the
\*   equator, and a box over the cell away from its features;
\*   a tile and a zoom of scale B, which the database does not hold.
ServerRequests ==
  { [zxy |-> << 5, 16, 15 >>, box |-> QueryBox(0, 0, 4, 4), zoom |-> 4],
    [zxy |-> << 5, 16, 16 >>, box |-> QueryBox(1, 1, 4, 4), zoom |-> 5],
    [zxy |-> << 6, 32, 31 >>, box |-> QueryBox(0, 0, 4, 4), zoom |-> 6] }

InitServer ==
  /\ ChartIdle
  /\ AppIdleExcept("tile")
  /\ tile_file \in { encode_buffer(cell) : cell \in TileCells }
  /\ tile_call \in { [pc |-> "asked", zxy |-> request.zxy, box |-> request.box,
                       zoom |-> request.zoom, tile |-> None, features |-> None] :
                       request \in ServerRequests }

\* The cell as the server's reader caches it.
TileCell(file) == Cm93Cell_new(Cm93Cell_parse(file), TileScale, TileCellIndex)

\* The FeatureRefs the reader returns for the tile asked.
TileRefs(cell) ==
  TileFeatureRefs(tile_file, cell, scale_for_zoom(tile_call.zxy[1]),
                  tile_bounds(tile_call.zxy[1], tile_call.zxy[2], tile_call.zxy[3]))

\* The FeatureRefs the reader returns for the box and zoom asked.
BoxRefs(cell) ==
  TileFeatureRefs(tile_file, cell, scale_for_zoom(tile_call.zoom), tile_call.box)

TileAnswered(cell) ==
  tile_call' = [tile_call EXCEPT !.tile = Some(get_tile_geojson(cell, TileRefs(cell)))]

\* Cm93Server::get_tile_geojson(z, x, y)
GetTileGeojson ==
  /\ tile_call.pc = "asked"
  /\ tile_call.tile = None
  /\ \E cell \in { TileCell(tile_file) } : TileAnswered(cell)
  /\ UNCHANGED << beside_tile_vars, tile_file >>

FeaturesAnswered(cell) ==
  tile_call' =
    [tile_call EXCEPT !.features = Some(get_features_in_bounds(cell, BoxRefs(cell)))]

\* Cm93Server::get_features_in_bounds(min_lat, min_lon, max_lat, max_lon, zoom)
GetFeaturesInBounds ==
  /\ tile_call.pc = "asked"
  /\ tile_call.features = None
  /\ \E cell \in { TileCell(tile_file) } : FeaturesAnswered(cell)
  /\ UNCHANGED << beside_tile_vars, tile_file >>

NextServer == GetTileGeojson \/ GetFeaturesInBounds

SpecServer == InitServer /\ [][NextServer]_vars

\* The GeoJSON features returned so far by either call.
TileOutputs ==
  (IF tile_call.tile # None
   THEN { tile_call.tile.val[i] : i \in 1 .. Len(tile_call.tile.val) } ELSE {})
  \cup (IF tile_call.features # None
        THEN { tile_call.features.val[i] : i \in 1 .. Len(tile_call.features.val) }
        ELSE {})

\* A line of exactly two vertices that share a longitude or a latitude.
TwoVertexAxisLine(gj) ==
  /\ gj.geometry.geom_type = "LineString"
  /\ Len(gj.geometry.coordinates) = 2
  /\ \/ gj.geometry.coordinates[1][1] = gj.geometry.coordinates[2][1]
     \/ gj.geometry.coordinates[1][2] = gj.geometry.coordinates[2][2]

\* C12: whatever the cell holds and whatever box is asked, no feature of
\* object class 200 or above and no two-vertex line whose vertices share a
\* longitude or a latitude is among the features returned by get_tile_geojson
\* or by the server's get_features_in_bounds.
C12_NoMetadataNoConnectors ==
  tile_call.pc = "asked" =>
    \A gj \in TileOutputs : gj.obj_class < 200 /\ ~TwoVertexAxisLine(gj)

\* The first feature of the cell served, as parsed.
ServedFeature == TileCell(tile_file).val.features[1]

\* Both calls have answered for a cell whose feature is a two-vertex line
\* along a meridian, of a class below 200, inside the box: nothing returned.
C12_Witness ==
  /\ tile_call.pc = "asked"
  /\ tile_call.tile = Some(<< >>)
  /\ tile_call.features = Some(<< >>)
  /\ ServedFeature.object_class = 199
  /\ ServedFeature.geometry_type = "Line"
  /\ Len(ServedFeature.geometry.points) = 2
  /\ ServedFeature.geometry.points[1].lon = ServedFeature.geometry.points[2].lon
  /\ ServedFeature.geometry.points[1].lat # ServedFeature.geometry.points[2].lat
  /\ TileRefs(TileCell(tile_file)) # << >>
  /\ BoxRefs(TileCell(tile_file)) # << >>

\* C13: a point or sounding feature whose point index cannot be resolved is
\* left with empty geometry by the parser, and no GeoJSON output holds it.
C13_UnresolvedPointsDropped ==
  (/\ tile_call.pc = "asked"
   /\ tile_call.tile # None
   /\ tile_call.features # None
   /\ ServedFeature.geometry_type = "Point") =>
    /\ ServedFeature.geometry.points = << >>
    /\ \A gj \in TileOutputs : gj.geometry.geom_type # "Point"

(***************************************************************************)
(* MBTiles tiles: MBTilesWriter::insert_tile (cm93/renderer.rs) and         *)
(* MBTilesReader::get_tile (database.rs) on one file.  A u32 is kept as its *)
(* two 16-bit halves << hi, lo >>; an SQLite INTEGER as << sign, hi, lo >>  *)
(* with sign 0, or -1 for a value 2^32 below the halves' value.  u32        *)
(* arithmetic overflow panics in a debug build and wraps in a release one. *)
(***************************************************************************)
Half == 65536

U32Less(a, b) == a[1] < b[1] \/ (a[1] = b[1] /\ a[2] < b[2])

\* a - b modulo 2^32
WrappingSub(a, b) ==
  LET borrow == IF a[2] < b[2] THEN 1 ELSE 0
  IN << (a[1] - b[1] - borrow + Half) % Half, (a[2] - b[2] + Half) % Half >>

\* `a - b` on u32: None for the panic of a debug build.
U32Sub(a, b, build) ==
  IF U32Less(a, b) /\ build = "debug" THEN None ELSE Some(WrappingSub(a, b))

\* `1 << z` on u32: the shift amount is taken modulo 32 by a release build and
\* panics in a debug build when it is 32 or more.
U32Shl1(z, build) ==
  IF z >= 32 /\ build = "debug" THEN None
  ELSE LET s == z % 32
       IN Some(IF s < 16 THEN << 0, 2 ^ s >> ELSE << 2 ^ (s - 16), 0 >>)

\* `(1 << z) - 1 - y`, the TMS row of both functions; None when it panics.
tms_y(z, y, build) ==
  LET shifted == U32Shl1(z, build)
      less_one == IF shifted = None THEN None
                  ELSE U32Sub(shifted.val, << 0, 1 >>, build)
  IN IF less_one = None THEN None ELSE U32Sub(less_one.val, y, build)

\* `v as i32` of a u32, and a u32 bound as a parameter (an i64).
AsI32(v) == IF v[1] >= Half \div 2 THEN << 0 - 1, v[1], v[2] >> ELSE << 0, v[1], v[2] >>
AsI64(v) == << 0, v[1], v[2] >>

TileKey(row) == << row.zoom_level, row.tile_column, row.tile_row >>

\* INSERT OR REPLACE under the unique index tile_index: rows with the new
\* row's key are deleted, then the row is inserted.
InsertOrReplace(rows, row) == { r \in rows : TileKey(r) # TileKey(row) } \cup {row}

\* MBTilesWriter::insert_tile: the rows afterwards; unchanged when it panics.
insert_tile(rows, z, x, y, data, build) ==
  LET row_y == tms_y(z, y, build)
  IN IF row_y = None THEN [result |-> "panic", rows |-> rows]
     ELSE [result |-> "ok",
           rows |-> InsertOrReplace(rows,
                      [zoom_level |-> AsI32(<< 0, z >>), tile_column |-> AsI32(x),
                       tile_row |-> AsI32(row_y.val), tile_data |-> data])]

\* MBTilesReader::get_tile: the tile_data values query_row may return (the
\* first selected row), "TileNotFound" when no row is selected.
get_tile(rows, z, x, y, build) ==
  LET row_y == tms_y(z, y, build)
      selected ==
        { r \in rows : TileKey(r) = << AsI64(<< 0, z >>), AsI64(x), AsI64(row_y.val) >> }
  IN IF row_y = None THEN {"panic"}
     ELSE IF selected = {} THEN {"TileNotFound"}
     ELSE { r.tile_data : r \in selected }

\* Tiles asked: zoom levels around the width of u32, and at each zoom the
\* first two and the last row that exist there, in the first or last column
\* (the first only at zoom 32, whose last column is no i32).
MaxTiles == 2
TileZooms == {0, 1, 31, 32}
TileData == {"png1", "png2"}
Builds == {"debug", "release"}

\* 2^z - 1 as a u32, for z up to 32.
LastIndex(z) ==
  IF z <= 16 THEN << 0, 2 ^ z - 1 >> ELSE << 2 ^ (z - 16) - 1, Half - 1 >>

TileIndexes(z) == { v \in {<< 0, 0 >>, << 0, 1 >>, LastIndex(z)} : ~U32Less(LastIndex(z), v) }

TileRequests ==
  UNION { { << z, x, y >> : x \in TileIndexes(z) \cap {<< 0, 0 >>, LastIndex(z)},
                            y \in TileIndexes(z) } : z \in TileZooms \ {32} }
  \cup { << 32, << 0, 0 >>, y >> : y \in TileIndexes(32) }

InitMbtiles ==
  /\ ChartIdle
  /\ AppIdleExcept("mbtiles")
  /\ mbt_tiles = {}
  /\ mbt_last = [op |-> "create"]

InsertDone(z, x, y, data, call) ==
  /\ Cardinality(call.rows) <= MaxTiles
  /\ mbt_tiles' = call.rows
  /\ mbt_last' = [op |-> "insert_tile", z |-> z, x |-> x, y |-> y, data |-> data,
                  result |-> call.result]

\* mbtiles.insert_tile(z, x, y, data)
InsertTile ==
  /\ \E req \in TileRequests, data \in TileData, build \in Builds :
       \E call \in { insert_tile(mbt_tiles, req[1], req[2], req[3], data, build) } :
         InsertDone(req[1], req[2], req[3], data, call)
  /\ UNCHANGED beside_mbtiles_vars

\* reader.get_tile(z, x, y)
GetTile ==
  /\ \E req \in TileRequests, build \in Builds :
       \E result \in get_tile(mbt_tiles, req[1], req[2], req[3], build) :
         mbt_last' = [op |-> "get_tile", z |-> req[1], x |-> req[2], y |-> req[3],
                      result |-> result]
  /\ UNCHANGED << beside_mbtiles_vars, mbt_tiles >>

NextMbtiles == InsertTile \/ GetTile

SpecMbtiles == InitMbtiles /\ [][NextMbtiles]_vars

\* 2^z - 1 - y as an SQLite INTEGER; None when it does not fit tile_row as i32.
DocumentedRow(z, y) ==
  IF z >= 32 THEN None ELSE Some(AsI64(WrappingSub(LastIndex(z), y)))

\* insert_tile(z, x, y, data) has stored data at tile_row = 2^z - 1 - y.
StoredAtTmsRow ==
  mbt_last.op = "insert_tile" =>
    /\ mbt_last.result = "ok"
    /\ DocumentedRow(mbt_last.z, mbt_last.y) # None
    /\ \E r \in mbt_tiles :
         /\ TileKey(r) = << AsI64(<< 0, mbt_last.z >>), AsI64(mbt_last.x),
                            DocumentedRow(mbt_last.z, mbt_last.y).val >>
         /\ r.tile_data = mbt_last.data

\* No two rows of the tiles table have the same key.
OneRowPerKey == \A r1, r2 \in mbt_tiles : TileKey(r1) = TileKey(r2) => r1 = r2

\* A get_tile that follows insert_tile(z, x, y, data) returns exactly data.
ReadsBackInserted ==
  (/\ mbt_last.op = "insert_tile"
   /\ mbt_last'.op = "get_tile"
   /\ << mbt_last'.z, mbt_last'.x, mbt_last'.y >> = << mbt_last.z, mbt_last.x, mbt_last.y >>)
  => mbt_last'.result = mbt_last.data

\* C14: for every zoom z and tile (x, y) with 0 <= x, y < 2^z, insert_tile
\* stores the tile at tile_row = 2^z - 1 - y, a following get_tile(z, x, y)
\* returns exactly the data, and a second insert at the same key replaces the
\* first, so the table holds at most one row per key.
C14_TmsRoundTrip ==
  /\ [](StoredAtTmsRow /\ OneRowPerKey)
  /\ [][ReadsBackInserted]_vars

\* What does hold: the same for the zoom levels below 32, where 1 << z fits.
RoundTripBelow32 ==
  /\ []((mbt_last.op = "insert_tile" /\ mbt_last.z < 32) =>
          (StoredAtTmsRow /\ OneRowPerKey))
  /\ [][(mbt_last.op = "insert_tile" /\ mbt_last.z < 32) => ReadsBackInserted]_vars

\* A tile of zoom 31 has been inserted twice and read back.
RoundTripBelow32_Reached ==
  /\ mbt_last.op = "get_tile"
  /\ mbt_last.z = 31
  /\ mbt_last.y = LastIndex(31)
  /\ mbt_last.result = "png2"
  /\ Cardinality(mbt_tiles) = 1

(***************************************************************************)
(* MBTiles metadata: write_mbtiles_metadata (chart_converter.rs) and       *)
(* update_mbtiles_name (commands.rs).  The table metadata (name TEXT,      *)
(* value TEXT) has no unique index; a file without the table is NoTable,   *)
(* one with it is Some(rows).                                               *)
(***************************************************************************)
NoTable == None

\* SELECT COUNT(*) > 0 FROM metadata WHERE name = ?1, with .unwrap_or(false)
MetadataExists(table, name) ==
  IF table = NoTable THEN FALSE
  ELSE \E i \in 1 .. Len(table.val) : table.val[i].name = name

\* UPDATE metadata SET value = ?1 WHERE name = ?2
UpdateMetadata(table, name, value) ==
  Some([i \in 1 .. Len(table.val) |->
          IF table.val[i].name = name THEN [name |-> name, value |-> value]
          ELSE table.val[i]])

\* INSERT INTO metadata (name, value) VALUES (?1, ?2)
InsertMetadata(table, name, value) ==
  Some(Append(table.val, [name |-> name, value |-> value]))

\* The statement that follows the check: UPDATE when the check found a row,
\* else INSERT.  Without the table the check yields false (unwrap_or) and the
\* INSERT fails.
ExecuteUpsert(table, exists, name, value) ==
  IF table = NoTable THEN [result |-> "Err", table |-> table]
  ELSE IF exists
  THEN [result |-> "Ok", table |-> UpdateMetadata(table, name, value)]
  ELSE [result |-> "Ok", table |-> InsertMetadata(table, name, value)]

\* write_mbtiles_metadata run with no other statement on the file between its
\* check and its write: the result and the table afterwards.
write_mbtiles_metadata(table, name, value) ==
  ExecuteUpsert(table, MetadataExists(table, name), name, value)

\* update_mbtiles_name run alone: the same statements with the name 'name'
\* spelled out.
update_mbtiles_name(table, name) ==
  ExecuteUpsert(table, MetadataExists(table, "name"), "name", name)

\* The tables a file starts with: none, or up to MaxRows rows of any names
\* and values, repeated names included.
MaxRows == 2
MetadataNames == {"name", "bounds"}
MetadataValues == {"Chart 1", "Chart 2"}
MetadataRows == [name : MetadataNames, value : MetadataValues]

\* The callers that may be inside a metadata write of the same file at once:
\* the import's worker threads (write_mbtiles_metadata) and the command that
\* renames a chart (update_mbtiles_name).  Each opens its own connection and
\* runs the check and the write as two statements outside any transaction.
MaxWriters == 2
MetadataCallers == 1 .. MaxWriters

NoCall == [pc |-> "idle"]

InitMetadata ==
  /\ ChartIdle
  /\ AppIdleExcept("metadata")
  /\ meta_table \in
       {NoTable} \cup { Some(rows) : rows \in UNION { [1 .. n -> MetadataRows] : n \in 0 .. MaxRows } }
  /\ meta_last = [op |-> "open"]
  /\ meta_calls = [caller \in MetadataCallers |-> NoCall]

\* The check of a call: `SELECT COUNT(*) > 0 ...` on the table as it is now.
MetadataSelected(caller, op, name, value) ==
  /\ meta_calls[caller] = NoCall
  /\ meta_calls' = [meta_calls EXCEPT ![caller] =
                      [pc |-> "selected", op |-> op, name |-> name, value |-> value,
                       before |-> meta_table,
                       exists |-> MetadataExists(meta_table, name)]]
  /\ UNCHANGED << beside_metadata_vars, meta_table, meta_last >>

\* The write of a call, on the table as it is now, and its return.
MetadataExecuted(caller, op) ==
  /\ meta_calls[caller].pc = "selected"
  /\ meta_calls[caller].op = op
  /\ LET call == meta_calls[caller]
         done == ExecuteUpsert(meta_table, call.exists, call.name, call.value)
     IN /\ meta_table' = done.table
        /\ meta_last' = [op |-> op, name |-> call.name, value |-> call.value,
                         before |-> call.before, at_write |-> meta_table,
                         result |-> done.result]
  /\ meta_calls' = [meta_calls EXCEPT ![caller] = NoCall]
  /\ UNCHANGED beside_metadata_vars

\* write_mbtiles_metadata(path, name, value): the check
WriteMbtilesMetadataSelect ==
  \E caller \in MetadataCallers, name \in MetadataNames, value \in MetadataValues :
    MetadataSelected(caller, "write_mbtiles_metadata", name, value)

\* write_mbtiles_metadata(path, name, value): the UPDATE or INSERT
WriteMbtilesMetadata ==
  \E caller \in MetadataCallers : MetadataExecuted(caller, "write_mbtiles_metadata")

\* update_mbtiles_name(path, name): the check
UpdateMbtilesNameSelect ==
  \E caller \in MetadataCallers, value \in MetadataValues :
    MetadataSelected(caller, "update_mbtiles_name", "name", value)

\* update_mbtiles_name(path, name): the UPDATE or INSERT
UpdateMbtilesName ==
  \E caller \in MetadataCallers : MetadataExecuted(caller, "update_mbtiles_name")

NextMetadata ==
  \/ WriteMbtilesMetadataSelect
  \/ WriteMbtilesMetadata
  \/ UpdateMbtilesNameSelect
  \/ UpdateMbtilesName

SpecMetadata == InitMetadata /\ [][NextMetadata]_vars

\* The rows of a table with / without the given name, in order.
RowsNamed(table, name) == SelectSeq(table.val, LAMBDA row : row.name = name)
RowsNotNamed(table, name) == SelectSeq(table.val, LAMBDA row : row.name # name)

\* What an upsert of the latest call means: before is the table its check
\* saw, at_write the table its UPDATE or INSERT met.
UpsertDone ==
  /\ meta_last.result = "Ok"
  /\ RowsNamed(meta_table, meta_last.name) # << >>
  /\ \A i \in 1 .. Len(meta_table.val) :
       meta_table.val[i].name = meta_last.name =>
         meta_table.val[i].value = meta_last.value
  /\ RowsNamed(meta_last.before, meta_last.name) = << >> =>
       Len(RowsNamed(meta_table, meta_last.name)) = 1
  /\ RowsNotNamed(meta_table, meta_last.name)
       = RowsNotNamed(meta_last.at_write, meta_last.name)
  /\ write_mbtiles_metadata(meta_table, meta_last.name, meta_last.value)
       = [result |-> "Ok", table |-> meta_table]

\* C15: write_mbtiles_metadata(path, name, value) is an idempotent upsert:
\* afterwards the table maps name to value, a table that had no row for the
\* name has exactly one, the rows of other names are unchanged, and writing
\* the same pair again changes nothing.
C15_MetadataUpsert ==
  (meta_last.op = "write_mbtiles_metadata" /\ meta_last.before # NoTable) => UpsertDone

\* What does hold: the same for a call whose write met the table that its
\* check had seen, no other write to the file having come between the two.
UpsertWhenAlone ==
  (/\ meta_last.op = "write_mbtiles_metadata"
   /\ meta_last.before # NoTable
   /\ meta_last.at_write = meta_last.before) => UpsertDone

\* A write has inserted the one row of its name into a table that holds a row
\* of another name.
UpsertWhenAlone_Reached ==
  /\ meta_last.op = "write_mbtiles_metadata"
  /\ meta_last.before # NoTable
  /\ meta_last.at_write = meta_last.before
  /\ RowsNamed(meta_last.before, meta_last.name) = << >>
  /\ RowsNotNamed(meta_last.before, meta_last.name) # << >>
  /\ Len(RowsNamed(meta_table, meta_last.name)) = 1

(***************************************************************************)
(* The chart import: import_selected_charts and import_charts_from_folder  *)
(* (commands.rs) over convert_to_mbtiles (chart_converter.rs).             *)
(*   imp_input    mode "selected" or "folder", the input files in order    *)
(*                (stem, whether the source exists), the CPU count, and    *)
(*                the set of files whose converter call never returns      *)
(*   imp_dir      the .mbtiles files of the charts directory: the stem,    *)
(*                the run that wrote the file, and whether the file is the *)
(*                empty database that opening a missing path creates       *)
(*   imp_threads  per input file: pc "waiting" (not spawned / not reached  *)
(*                by the loop), "running" (spawned, body not begun),       *)
(*                "load_converted", "load_skipped", "load_failed", "emit"  *)
(*                (building the progress event), "emitted", "skipping"     *)
(*                (found its .mbtiles, not yet counted), "converting",     *)
(*                "overviews", "translate_failed" (inside                  *)
(*                convert_to_mbtiles, before and after gdal_translate      *)
(*                wrote the .mbtiles), "metadata" (counted as converted,   *)
(*                name and description not yet written), "description"     *)
(*                (name written, description not yet), "done"              *)
(*   imp_run      run number, phase, the atomic counters, the result, and  *)
(*                the chart commands run beside the import: how many were  *)
(*                called, the charts remove_chart deleted, and where the   *)
(*                calls of import_chart, download_catalog_chart,           *)
(*                fix_chart_bounds and tag_charts_from_bsb are (one call   *)
(*                of each at a time)                                       *)
(*   imp_events   the "import-progress" events a listener has received     *)
(* The charts directory is written by the import and by the commands       *)
(* remove_chart, import_chart, download_catalog_chart, fix_chart_bounds    *)
(* and tag_charts_from_bsb, which the user can run before, during and      *)
(* after an import.  remove_chart and import_chart are synchronous         *)
(* commands, run one after the other; the others and the imports are       *)
(* asynchronous and run beside them.                                       *)
(***************************************************************************)
Min(a, b) == IF a < b THEN a ELSE b
Max(a, b) == IF a > b THEN a ELSE b

\* `std::cmp::min(4, std::cmp::max(2, num_cpus::get() / 2))`
num_threads(cpu_count) == Min(4, Max(2, cpu_count \div 2))

\* The chunk size one larger than num_threads.
ChunkSize_OneMore(input) ==
  IF input.mode = "folder" THEN 1 ELSE num_threads(input.cpu_count) + 1

\* `.chunks(num_threads)`; the for loop of the folder import takes one file
\* at a time.
ChunkSize(input) == IF input.mode = "folder" THEN 1 ELSE num_threads(input.cpu_count)

\* What one external GDAL command can do: fail to start (the `?` returns),
\* exit with a failure status having written nothing or part of its output,
\* or succeed.
ToolOutcomes == {"spawn_error", "exit_failure", "exit_failure_partial", "success"}

\* convert_bsb_to_mbtiles under the outcomes of gdal_translate -expand,
\* gdalwarp and gdal_translate -of MBTiles: whether it returns Ok, the step it
\* failed at, the files of the stem it removed and those it leaves behind.
convert_bsb_to_mbtiles(expand, warp, translate) ==
  IF expand # "success"
  THEN [ok |-> FALSE, step |-> "expand", removed |-> {},
        left |-> IF expand = "exit_failure_partial" THEN {"expanded.tif"} ELSE {}]
  ELSE IF warp = "spawn_error"
  THEN [ok |-> FALSE, step |-> "reproject", removed |-> {}, left |-> {"expanded.tif"}]
  ELSE IF warp # "success"
  THEN [ok |-> FALSE, step |-> "reproject",
        removed |-> {"expanded.tif", "warped.tif"}, left |-> {}]
  ELSE IF translate = "spawn_error"
  THEN [ok |-> FALSE, step |-> "mbtiles", removed |-> {"expanded.tif"},
        left |-> {"warped.tif"}]
  ELSE IF translate # "success"
  THEN [ok |-> FALSE, step |-> "mbtiles", removed |-> {"expanded.tif", "warped.tif"},
        left |-> IF translate = "exit_failure_partial" THEN {"mbtiles"} ELSE {}]
  ELSE [ok |-> TRUE, step |-> "done", removed |-> {"expanded.tif", "warped.tif"},
        left |-> {"mbtiles"}]

\* The ways one conversion can end.
ConversionOutcomes ==
  { convert_bsb_to_mbtiles(expand, warp, translate) :
      expand \in ToolOutcomes, warp \in ToolOutcomes, translate \in ToolOutcomes }

\* What the import sees of a conversion: Ok or Err, and whether it left a
\* <stem>.mbtiles.
ImportOutcomes ==
  { [ok |-> outcome.ok, wrote |-> "mbtiles" \in outcome.left] :
      outcome \in ConversionOutcomes }

\* The .mbtiles files of the charts directory after a conversion of the stem
\* in the given run.
WriteFile(dir, stem, run) ==
  { e \in dir : e.stem # stem } \cup { [stem |-> stem, by |-> run, empty |-> FALSE] }

DirAfter(dir, stem, outcome, run) ==
  IF outcome.wrote THEN WriteFile(dir, stem, run) ELSE dir

\* `mbtiles_path.exists()` / `output_path.exists()`
mbtiles_exists_AlwaysFalse(dir, stem) == FALSE

mbtiles_exists(dir, stem) == \E e \in dir : e.stem = stem

\* `Connection::open(mbtiles_path)` in write_mbtiles_bounds and
\* write_mbtiles_metadata: a path with no file gets an empty database, whose
\* missing metadata table fails the statements that follow; the caller logs
\* the error and goes on.
Connection_open(dir, stem, run) ==
  IF mbtiles_exists(dir, stem) THEN dir
  ELSE dir \cup { [stem |-> stem, by |-> run, empty |-> TRUE] }

\* No chart command has been called, none is running.
NoChartCall == [pc |-> "idle", chart_id |-> ""]

\* fix_chart_bounds and tag_charts_from_bsb go through the .mbtiles files
\* they have listed: the files still to come, and the one being written.
NoScan == [pc |-> "idle", listed |-> {}, chart_id |-> ""]

NoChartCommands ==
  [commands |-> 0, removed |-> {}, import_chart |-> NoChartCall, download |-> NoChartCall,
   fix |-> NoScan, tag |-> NoScan]

NoCounters == [completed |-> 0, converted |-> 0, skipped |-> 0, failed |-> 0]

\* FolderImportResult { total_found, converted: 0, failed: 0, skipped: 0, errors }
NewResult(input) ==
  [total_found |-> Len(input.files), converted |-> 0, skipped |-> 0, failed |-> 0,
   errors |-> << >>]

\* The fields of an ImportProgress a thread has evaluated so far.
NoLoads == [current |-> 0, converted |-> 0, skipped |-> 0, failed |-> 0]

WaitingThread == [pc |-> "waiting", outcome |-> "none", event |-> NoLoads]

\* ImportProgress { phase, current, total, current_file, converted, skipped,
\* failed }; file is the position of the input file the event names, 0 when
\* current_file is a message.
ImportProgress(phase, total, current_file, file, loads) ==
  [phase |-> phase, current |-> loads.current, total |-> total,
   current_file |-> current_file, file |-> file, converted |-> loads.converted,
   skipped |-> loads.skipped, failed |-> loads.failed]

\* The events emitted before the first file: "scanning" by both commands
\* (total is 0 in the folder import, which has not scanned yet), and the
\* folder import's "converting" event with the number of charts found.
EventsBeforeFiles(input) ==
  IF input.mode = "folder"
  THEN << ImportProgress("scanning", 0, "Scanning for chart files...", 0, NoLoads),
          ImportProgress("converting", Len(input.files), "Found charts to process", 0,
                         NoLoads) >>
  ELSE << ImportProgress("scanning", Len(input.files), "Scanning for BSB metadata...", 0,
                         NoLoads) >>

\* The "converting" event for file i with the fields as evaluated.
ProgressEvent(input, i, loads) ==
  ImportProgress("converting", Len(input.files), input.files[i].stem, i, loads)

\* The "complete" event after the result loop.
CompleteEvent(input, result) ==
  ImportProgress("complete", Len(input.files), "Import complete", 0,
                 [current |-> Len(input.files), converted |-> result.converted,
                  skipped |-> result.skipped, failed |-> result.failed])

\* The first file not yet spawned, and the files of the chunk that starts there.
NextChunk(input, threads) ==
  LET waiting == { i \in 1 .. Len(threads) : threads[i].pc = "waiting" }
  IN IF waiting = {} THEN {}
     ELSE { i \in waiting : i < SetMin(waiting) + ChunkSize(input) }

\* `handles.into_iter().map(|h| h.join().unwrap())`: every thread spawned so
\* far has returned.
AllJoined(threads) == \A i \in 1 .. Len(threads) : threads[i].pc \in {"waiting", "done"}

\* The result loop with its first branch (skipped) never taken.
CollectResults_SkippedAsConverted(input, threads) ==
  LET Count(outcome) == Cardinality({ i \in 1 .. Len(threads) : threads[i].outcome = outcome })
  IN [total_found |-> Len(input.files),
      converted |-> Count("converted") + Count("skipped"),
      skipped |-> 0, failed |-> Count("failed"), errors |-> << >>]

\* The result loop after the last join: counts and errors from the
\* ConversionResults, in input order.
CollectResults(input, threads) ==
  LET Count(outcome) == Cardinality({ i \in 1 .. Len(threads) : threads[i].outcome = outcome })
      failed == SelectSeq([i \in 1 .. Len(threads) |-> i],
                          LAMBDA i : threads[i].outcome = "failed")
  IN [total_found |-> Len(input.files), converted |-> Count("converted"),
      skipped |-> Count("skipped"), failed |-> Count("failed"),
      errors |-> [k \in 1 .. Len(failed) |-> input.files[failed[k]].stem]]

\* The result of the folder import after one more file: counted in the loop.
CountInLoop(result, stem, outcome) ==
  CASE outcome = "converted" -> [result EXCEPT !.converted = @ + 1]
    [] outcome = "skipped" -> [result EXCEPT !.skipped = @ + 1]
    [] OTHER -> [result EXCEPT !.failed = @ + 1, !.errors = Append(@, stem)]

\* The shared atomic counters of import_selected_charts after one more outcome.
CountAtomic(counters, outcome) ==
  CASE outcome = "converted" -> [counters EXCEPT !.converted = @ + 1]
    [] outcome = "skipped" -> [counters EXCEPT !.skipped = @ + 1]
    [] OTHER -> [counters EXCEPT !.failed = @ + 1]

\* The inputs: up to MaxFiles files, two stems that exist (repeats are files
\* of the same stem in different folders) and one selected path that is gone;
\* 1 or 6 CPUs (chunks of 2 or 3 threads); at most one converter call that
\* never returns.
MaxFiles == 3
CpuCounts == {1, 6}
SourceFiles ==
  { [stem |-> "US1", exists |-> TRUE], [stem |-> "US2", exists |-> TRUE],
    [stem |-> "GONE", exists |-> FALSE] }
FileLists == UNION { [1 .. n -> SourceFiles] : n \in 1 .. MaxFiles }

ImportInputs ==
  { [mode |-> mode, files |-> files, cpu_count |-> cpu_count, hangs |-> hangs] :
      mode \in {"selected", "folder"}, files \in FileLists, cpu_count \in CpuCounts,
      hangs \in {{}} \cup { {i} : i \in 1 .. MaxFiles } }

\* The folder import scans the folder once (its files exist) and does not
\* read the CPU count.  The stems are names: of two lists that differ only
\* in US1 and US2 exchanged, the one whose first existing file is US1 is
\* taken.
ValidInput(input) ==
  /\ \A i \in input.hangs : i <= Len(input.files)
  /\ \A i \in 1 .. Len(input.files) :
       input.files[i].stem = "US2" => \E j \in 1 .. i - 1 : input.files[j].stem = "US1"
  /\ input.mode = "folder" =>
       /\ input.cpu_count = 1
       /\ \A i \in 1 .. Len(input.files) : input.files[i].exists

StartRun(input, run, previous) ==
  /\ imp_threads' = [i \in 1 .. Len(input.files) |-> WaitingThread]
  /\ imp_run' = [run |-> run, phase |-> "converting", counters |-> NoCounters,
                 result |-> NewResult(input), previous |-> previous,
                 dir_before |-> imp_dir, charts |-> imp_run.charts]

InitImport ==
  /\ ChartIdle
  /\ AppIdleExcept("import")
  /\ imp_events = << >>
  /\ imp_input \in { input \in ImportInputs : ValidInput(input) }
  /\ imp_dir = {}
  /\ imp_threads = [i \in 1 .. Len(imp_input.files) |-> WaitingThread]
  /\ imp_run = [run |-> 1, phase |-> "converting", counters |-> NoCounters,
                result |-> NewResult(imp_input), previous |-> None, dir_before |-> {},
                charts |-> NoChartCommands]

\* The next chunk's threads are spawned (the next loop iteration is entered)
\* once every thread of the chunk before has been joined.
SpawnChunk ==
  /\ imp_run.phase = "converting"
  /\ AllJoined(imp_threads)
  /\ NextChunk(imp_input, imp_threads) # {}
  /\ imp_threads' = [i \in 1 .. Len(imp_threads) |->
                       IF i \in NextChunk(imp_input, imp_threads)
                       THEN [imp_threads[i] EXCEPT !.pc = "running"]
                       ELSE imp_threads[i]]
  /\ UNCHANGED << beside_import_vars, imp_input, imp_dir, imp_run >>

\* A thread (iteration) has its outcome: the atomic counter is bumped and the
\* ConversionResult is kept for the result loop; the folder import counts in
\* place.
ThreadCounts(i, outcome, pc) ==
  /\ imp_threads' = [imp_threads EXCEPT ![i].pc = pc, ![i].outcome = outcome]
  /\ imp_run' =
       IF imp_input.mode = "folder"
       THEN [imp_run EXCEPT
               !.result = CountInLoop(@, imp_input.files[i].stem, outcome)]
       ELSE [imp_run EXCEPT !.counters = CountAtomic(@, outcome)]

\* The thread (iteration) ends with the count.
ThreadDone(i, outcome) == ThreadCounts(i, outcome, "done")

\* The first statement of the thread body, `completed.fetch_add(1) + 1`; the
\* folder import has `index + 1` and no shared counter.
BeginFile(i, pc, current) ==
  /\ imp_threads[i].pc = "running"
  /\ imp_threads' = [imp_threads EXCEPT ![i].pc = pc, ![i].event.current = current]
  /\ imp_run' = IF imp_input.mode = "folder" THEN imp_run
                ELSE [imp_run EXCEPT !.counters.completed = @ + 1]
  /\ UNCHANGED << imp_input, imp_dir >>

\* `current` as the thread (iteration) of file i computes it.
Current(i) ==
  IF imp_input.mode = "folder" THEN i ELSE imp_run.counters.completed + 1

\* The thread body's head with nobody listening: the loads of the counters
\* and the emit change nothing another thread reads.
Begin ==
  \E i \in 1 .. Len(imp_threads) :
    /\ BeginFile(i, "emitted", 0)
    /\ UNCHANGED beside_import_vars

\* The same with a listener on "import-progress" that keeps the events.  The
\* folder import emits from its own result at once; a thread of the selected
\* import goes on to load the three counters one by one.
BeginEmit ==
  \E i \in 1 .. Len(imp_threads) :
    IF imp_input.mode = "folder"
    THEN /\ BeginFile(i, "emitted", Current(i))
         /\ imp_events' =
              Append(imp_events,
                     ProgressEvent(imp_input, i,
                                   [current |-> Current(i),
                                    converted |-> imp_run.result.converted,
                                    skipped |-> imp_run.result.skipped,
                                    failed |-> imp_run.result.failed]))
         /\ UNCHANGED beside_emit_vars
    ELSE /\ BeginFile(i, "load_converted", Current(i))
         /\ UNCHANGED << beside_emit_vars, imp_events >>

\* `converted_count.load(..)`, `skipped_count.load(..)`, `failed_count.load(..)`:
\* the fields of the struct literal are evaluated in this order, each load on
\* its own.
LoadCounter ==
  \E i \in 1 .. Len(imp_threads) :
    /\ imp_threads[i].pc \in {"load_converted", "load_skipped", "load_failed"}
    /\ imp_threads' =
         CASE imp_threads[i].pc = "load_converted" ->
                [imp_threads EXCEPT ![i].pc = "load_skipped",
                                    ![i].event.converted = imp_run.counters.converted]
           [] imp_threads[i].pc = "load_skipped" ->
                [imp_threads EXCEPT ![i].pc = "load_failed",
                                    ![i].event.skipped = imp_run.counters.skipped]
           [] OTHER ->
                [imp_threads EXCEPT ![i].pc = "emit",
                                    ![i].event.failed = imp_run.counters.failed]
    /\ UNCHANGED << beside_emit_vars, imp_events, imp_input, imp_dir, imp_run >>

\* `app_handle.emit("import-progress", ImportProgress { .. })`
EmitProgress ==
  \E i \in 1 .. Len(imp_threads) :
    /\ imp_threads[i].pc = "emit"
    /\ imp_events' = Append(imp_events, ProgressEvent(imp_input, i, imp_threads[i].event))
    /\ imp_threads' = [imp_threads EXCEPT ![i].pc = "emitted", ![i].event = NoLoads]
    /\ UNCHANGED << beside_emit_vars, imp_input, imp_dir, imp_run >>

\* After the event: `if !file_path.exists()` (selected files only) counts the
\* file as failed and returns; `if mbtiles_path.exists()` sends the thread to
\* the skipped branch, otherwise it enters convert_to_mbtiles.
CheckFile(i, already_imported) ==
  /\ imp_threads[i].pc = "emitted"
  /\ IF imp_input.mode = "selected" /\ ~imp_input.files[i].exists
     THEN ThreadDone(i, "failed")
     ELSE /\ imp_threads' =
               [imp_threads EXCEPT
                  ![i].pc = IF already_imported THEN "skipping" ELSE "converting"]
          /\ imp_run' = imp_run
  /\ UNCHANGED << imp_input, imp_dir >>

CheckFiles ==
  \E i \in 1 .. Len(imp_threads) :
    /\ CheckFile(i, mbtiles_exists(imp_dir, imp_input.files[i].stem))
    /\ UNCHANGED beside_import_vars

\* `skipped_count.fetch_add(1)` and the return of the skipped result
\* (`result.skipped += 1; continue` in the folder import).
SkipFile ==
  \E i \in 1 .. Len(imp_threads) :
    /\ imp_threads[i].pc = "skipping"
    /\ ThreadDone(i, "skipped")
    /\ UNCHANGED << beside_import_vars, imp_input, imp_dir >>

\* Inside convert_to_mbtiles, gdal_translate -of MBTiles has written
\* <stem>.mbtiles, whole or in part: the file is in the charts directory while
\* the call has still to build the overviews and write the bounds, or to
\* return its error.
Translate ==
  \E i \in 1 .. Len(imp_threads), outcome \in ImportOutcomes :
    /\ imp_threads[i].pc = "converting"
    /\ outcome.wrote
    /\ imp_dir' = DirAfter(imp_dir, imp_input.files[i].stem, outcome, imp_run.run)
    /\ imp_threads' =
         [imp_threads EXCEPT
            ![i].pc = IF outcome.ok THEN "overviews" ELSE "translate_failed"]
    /\ UNCHANGED << beside_import_vars, imp_input, imp_run >>

\* convert_to_mbtiles returns: Err from a step that wrote no .mbtiles, Err
\* after a partial one, or Ok after gdaladdo and, for a chart whose bounds
\* were read (`if let Some(bounds) = chart_bounds`), write_mbtiles_bounds,
\* which opens <stem>.mbtiles again and so puts an empty database where the
\* file has been removed meanwhile.
\* `failed_count.fetch_add(1)` or `converted_count.fetch_add(1)` follows; the
\* converted file has its metadata still to be written.  A hanging call never
\* returns.
Finish ==
  \E i \in 1 .. Len(imp_threads) :
    /\ i \notin imp_input.hangs
    /\ \/ /\ imp_threads[i].pc = "converting"
          /\ \E outcome \in ImportOutcomes : ~outcome.wrote /\ ~outcome.ok
          /\ ThreadDone(i, "failed")
          /\ imp_dir' = imp_dir
       \/ /\ imp_threads[i].pc = "translate_failed"
          /\ ThreadDone(i, "failed")
          /\ imp_dir' = imp_dir
       \/ /\ imp_threads[i].pc = "overviews"
          /\ ThreadCounts(i, "converted", "metadata")
          /\ imp_dir' \in
               { imp_dir, Connection_open(imp_dir, imp_input.files[i].stem, imp_run.run) }
    /\ UNCHANGED << beside_import_vars, imp_input >>

\* After the count: a chart not found in the BSB metadata
\* (`if let Some(meta) = metadata_map.get(..)`) is done; for one found,
\* write_mbtiles_metadata writes the name, opening <stem>.mbtiles again (a
\* file removed meanwhile is back as an empty database, the error is logged),
\* and a chart with an edition date has its description still to be written.
WriteMetadata ==
  \E i \in 1 .. Len(imp_threads), meta \in {"none", "title", "title_and_edition"} :
    /\ imp_threads[i].pc = "metadata"
    /\ imp_threads' =
         [imp_threads EXCEPT
            ![i].pc = IF meta = "title_and_edition" THEN "description" ELSE "done"]
    /\ imp_dir' = IF meta = "none" THEN imp_dir
                  ELSE Connection_open(imp_dir, imp_input.files[i].stem, imp_run.run)
    /\ UNCHANGED << beside_import_vars, imp_input, imp_run >>

\* `write_mbtiles_metadata(.., "description", ..)`: the file is opened once
\* more, and the thread (iteration) ends.
WriteDescription ==
  \E i \in 1 .. Len(imp_threads) :
    /\ imp_threads[i].pc = "description"
    /\ imp_threads' = [imp_threads EXCEPT ![i].pc = "done"]
    /\ imp_dir' = Connection_open(imp_dir, imp_input.files[i].stem, imp_run.run)
    /\ UNCHANGED << beside_import_vars, imp_input, imp_run >>

\* After the last join (the last iteration): the result loop and the
\* "complete" event.
CompleteRun ==
  /\ imp_run.phase = "converting"
  /\ \A i \in 1 .. Len(imp_threads) : imp_threads[i].pc = "done"
  /\ imp_run' =
       [imp_run EXCEPT
          !.phase = "complete",
          !.result = IF imp_input.mode = "folder" THEN @
                     ELSE CollectResults(imp_input, imp_threads)]
  /\ UNCHANGED << imp_input, imp_dir, imp_threads >>

Complete == CompleteRun /\ UNCHANGED beside_import_vars

\* The same with the listener.
CompleteEmit ==
  /\ CompleteRun
  /\ imp_events' = Append(imp_events, CompleteEvent(imp_input, imp_run'.result))
  /\ UNCHANGED beside_emit_vars

\* The same import is asked again, once.
ImportAgain ==
  /\ imp_run.phase = "complete"
  /\ imp_run.previous = None
  /\ StartRun(imp_input, imp_run.run + 1, Some(imp_run.result))
  /\ UNCHANGED << beside_import_vars, imp_input, imp_dir >>

\* The commands called beside one import, and the chart they name.
MaxChartCommands == 3
ChartIds == {"US1"}

\* A command is called: the state of the calls becomes `charts`.
ChartCall(charts) ==
  /\ imp_run.charts.commands < MaxChartCommands
  /\ imp_run' = [imp_run EXCEPT !.charts = [charts EXCEPT !.commands = @ + 1]]
  /\ UNCHANGED << beside_import_vars, imp_input, imp_threads >>

\* A command called before goes on.
ChartStep(charts) ==
  /\ imp_run' = [imp_run EXCEPT !.charts = charts]
  /\ UNCHANGED << beside_import_vars, imp_input, imp_threads >>

\* remove_chart: `std::fs::remove_file(charts_dir/<chart_id>.mbtiles)` when
\* the file exists
RemoveChart ==
  \E chart_id \in ChartIds :
    /\ imp_run.charts.import_chart.pc = "idle"
    /\ mbtiles_exists(imp_dir, chart_id)
    /\ imp_dir' = { e \in imp_dir : e.stem # chart_id }
    /\ ChartCall([imp_run.charts EXCEPT !.removed = @ \cup {chart_id}])

\* import_chart: `if dest_path.exists()` returns the chart that is there;
\* otherwise the command goes on to copy the source.
ImportChart ==
  \E stem \in ChartIds :
    /\ imp_run.charts.import_chart.pc = "idle"
    /\ imp_dir' = imp_dir
    /\ ChartCall(IF mbtiles_exists(imp_dir, stem) THEN imp_run.charts
                 ELSE [imp_run.charts EXCEPT
                         !.import_chart = [pc |-> "copy", chart_id |-> stem]])

\* `std::fs::copy(&source_path, &dest_path)` writes charts_dir/<file_name>,
\* over a file that has appeared since the check; run 0 stands for a file
\* that no run of the import wrote.
ImportChartCopy ==
  /\ imp_run.charts.import_chart.pc = "copy"
  /\ imp_dir' = WriteFile(imp_dir, imp_run.charts.import_chart.chart_id, 0)
  /\ ChartStep([imp_run.charts EXCEPT !.import_chart = NoChartCall])

\* What download_catalog_chart finds in the download: an .mbtiles file to
\* copy, a BSB or S-57 chart to convert, or neither.
Downloads == {"mbtiles", "chart", "other"}

\* download_catalog_chart up to the extracted files: a download without
\* .mbtiles and without a chart (or without GDAL) returns with the charts
\* directory as it was.
DownloadCatalogChart ==
  \E chart_id \in ChartIds, download \in Downloads :
    /\ imp_run.charts.download.pc = "idle"
    /\ imp_dir' = imp_dir
    /\ ChartCall(CASE download = "mbtiles" ->
                        [imp_run.charts EXCEPT
                           !.download = [pc |-> "copy", chart_id |-> chart_id]]
                   [] download = "chart" ->
                        [imp_run.charts EXCEPT
                           !.download = [pc |-> "converting", chart_id |-> chart_id]]
                   [] OTHER -> imp_run.charts)

\* `std::fs::copy(mbtiles_file, &dest)` writes charts_dir/<chart_id>.mbtiles,
\* over a file of that name.
DownloadCopy ==
  /\ imp_run.charts.download.pc = "copy"
  /\ imp_dir' = WriteFile(imp_dir, imp_run.charts.download.chart_id, 0)
  /\ ChartStep([imp_run.charts EXCEPT !.download = NoChartCall])

\* `convert_to_mbtiles(bsb_file, &dest)` up to gdal_translate -of MBTiles: a
\* step fails without an .mbtiles, or gdal_translate writes the file, whole
\* (gdaladdo follows) or in part (Err is returned).
DownloadTranslate ==
  \E outcome \in ImportOutcomes :
    /\ imp_run.charts.download.pc = "converting"
    /\ imp_dir' = DirAfter(imp_dir, imp_run.charts.download.chart_id, outcome, 0)
    /\ ChartStep([imp_run.charts EXCEPT
                    !.download = IF outcome.ok
                                 THEN [@ EXCEPT !.pc = "overviews"]
                                 ELSE NoChartCall])

\* The conversion's end: gdaladdo and, for a chart whose bounds were read,
\* write_mbtiles_bounds, which puts an empty database where the file has
\* been removed during gdaladdo.
DownloadFinish ==
  /\ imp_run.charts.download.pc = "overviews"
  /\ imp_dir' \in { imp_dir, Connection_open(imp_dir, imp_run.charts.download.chart_id, 0) }
  /\ ChartStep([imp_run.charts EXCEPT !.download = NoChartCall])

\* The .mbtiles files a command finds in the charts directory
\* (`std::fs::read_dir(&charts_dir)`), and the command's state with `listed`
\* still to go through.
ListDir(dir) == { e.stem : e \in dir }
Scan(listed) == IF listed = {} THEN NoScan ELSE [NoScan EXCEPT !.pc = "listed", !.listed = listed]

\* fix_chart_bounds: a missing folder or missing GDAL returns at once;
\* otherwise the charts directory is listed.
FixChartBounds ==
  \E listed \in { {}, ListDir(imp_dir) } :
    /\ imp_run.charts.fix.pc = "idle"
    /\ imp_dir' = imp_dir
    /\ ChartCall([imp_run.charts EXCEPT !.fix = Scan(listed)])

\* mbtiles_has_bounds opens the next listed file, which puts an empty
\* database where the file has been removed since the listing; a chart
\* without bounds whose KAP file gives bounds goes on to the update.
FixHasBounds ==
  \E chart_id \in imp_run.charts.fix.listed, update \in BOOLEAN :
    /\ imp_run.charts.fix.pc = "listed"
    /\ imp_dir' = Connection_open(imp_dir, chart_id, 0)
    /\ ChartStep([imp_run.charts EXCEPT
                    !.fix = IF update
                            THEN [pc |-> "update", listed |-> @.listed \ {chart_id},
                                  chart_id |-> chart_id]
                            ELSE Scan(@.listed \ {chart_id})])

\* update_mbtiles_bounds opens the file again.
FixUpdateBounds ==
  /\ imp_run.charts.fix.pc = "update"
  /\ imp_dir' = Connection_open(imp_dir, imp_run.charts.fix.chart_id, 0)
  /\ ChartStep([imp_run.charts EXCEPT !.fix = Scan(@.listed)])

\* tag_charts_from_bsb: a missing folder returns at once; otherwise the
\* charts directory is listed.
TagChartsFromBsb ==
  \E listed \in { {}, ListDir(imp_dir) } :
    /\ imp_run.charts.tag.pc = "idle"
    /\ imp_dir' = imp_dir
    /\ ChartCall([imp_run.charts EXCEPT !.tag = Scan(listed)])

\* The next listed file: one without a BSB mapping is passed over; for one
\* with a mapping update_mbtiles_name opens the file, which puts an empty
\* database where the file has been removed since the listing.  The
\* statement fails on a database without the metadata table; after Ok a
\* chart with an edition date goes on to the description.
TagName ==
  \E chart_id \in imp_run.charts.tag.listed, meta \in {"none", "title", "title_and_edition"},
     ok \in BOOLEAN :
    /\ imp_run.charts.tag.pc = "listed"
    /\ ok => \E e \in imp_dir : e.stem = chart_id /\ ~e.empty
    /\ imp_dir' = IF meta = "none" THEN imp_dir ELSE Connection_open(imp_dir, chart_id, 0)
    /\ ChartStep([imp_run.charts EXCEPT
                    !.tag = IF meta = "title_and_edition" /\ ok
                            THEN [pc |-> "description", listed |-> @.listed \ {chart_id},
                                  chart_id |-> chart_id]
                            ELSE Scan(@.listed \ {chart_id})])

\* `write_mbtiles_metadata(.., "description", ..)` opens the file again.
TagDescription ==
  /\ imp_run.charts.tag.pc = "description"
  /\ imp_dir' = Connection_open(imp_dir, imp_run.charts.tag.chart_id, 0)
  /\ ChartStep([imp_run.charts EXCEPT !.tag = Scan(@.listed)])

ChartCommands ==
  \/ RemoveChart \/ ImportChart \/ ImportChartCopy
  \/ DownloadCatalogChart \/ DownloadCopy \/ DownloadTranslate \/ DownloadFinish
  \/ FixChartBounds \/ FixHasBounds \/ FixUpdateBounds
  \/ TagChartsFromBsb \/ TagName \/ TagDescription

\* The import with nothing else writing the charts directory.
NextImport ==
  \/ SpawnChunk \/ Begin \/ CheckFiles \/ SkipFile \/ Translate \/ Finish
  \/ WriteMetadata \/ WriteDescription
  \/ Complete \/ ImportAgain

SpecImport == InitImport /\ [][NextImport]_vars

\* Threads are scheduled and an external process that does not hang returns:
\* every step that stays possible is taken.
SpecImportFair == SpecImport /\ WF_vars(NextImport)

\* The same for the imports in which every converter call returns.
InitReturning ==
  /\ InitImport
  /\ imp_input.hangs = {}

SpecImportReturning == InitReturning /\ [][NextImport]_vars /\ WF_vars(NextImport)

\* The import of one file with the chart commands run beside it.
InitCharts ==
  /\ InitReturning
  /\ Len(imp_input.files) = 1

NextCharts == NextImport \/ ChartCommands

SpecCharts == InitCharts /\ [][NextCharts]_vars

\* The files being converted: their threads are inside convert_to_mbtiles.
InFlight ==
  { i \in 1 .. Len(imp_threads) :
      imp_threads[i].pc \in {"converting", "overviews", "translate_failed"} }

FileDone(i) == imp_threads[i].pc = "done"

\* C16: if the converter call of one input file never returns, every other
\* input file is still eventually converted, skipped or failed.
C16_HangIsolated ==
  \A i \in 1 .. MaxFiles :
    (/\ imp_run.run = 1
     /\ imp_input.hangs # {}
     /\ i <= Len(imp_input.files)
     /\ i \notin imp_input.hangs) ~> (i <= Len(imp_threads) /\ FileDone(i))

\* C17: at no moment are more than N = min(4, max(2, cpu_count / 2))
\* conversions in flight.
C17_AtMostNInFlight == Cardinality(InFlight) <= Min(4, Max(2, imp_input.cpu_count \div 2))

\* N conversions are in flight while a further file waits for the next chunk.
C17_Witness ==
  /\ imp_input.mode = "selected"
  /\ Cardinality(InFlight) = num_threads(imp_input.cpu_count)
  /\ \E i \in 1 .. Len(imp_threads) : imp_threads[i].pc = "waiting"

Outcomes(outcome) == { i \in 1 .. Len(imp_threads) : imp_threads[i].outcome = outcome }

\* The result of a finished import counts every file once.
CountedOnce ==
  imp_run.phase = "complete" =>
    /\ \A i \in 1 .. Len(imp_threads) : FileDone(i)
    /\ imp_run.result.total_found = Len(imp_input.files)
    /\ imp_run.result.converted = Cardinality(Outcomes("converted"))
    /\ imp_run.result.skipped = Cardinality(Outcomes("skipped"))
    /\ imp_run.result.failed = Cardinality(Outcomes("failed"))
    /\ imp_run.result.converted + imp_run.result.skipped + imp_run.result.failed
         = imp_run.result.total_found
    /\ Len(imp_run.result.errors) = imp_run.result.failed

\* C18: for any list of input files and any pattern of converter failures the
\* import runs to completion and every file is counted exactly once:
\* converted + skipped + failed = total_found, errors holds one entry per
\* failed file, and the files after a failed one are processed all the same.
C18_EveryFileCountedOnce ==
  /\ []CountedOnce
  /\ (imp_input.hangs = {} /\ imp_run.phase = "converting") ~> imp_run.phase = "complete"

\* An import is complete in which a file failed and a later one was converted.
C18_Witness ==
  /\ imp_run.phase = "complete"
  /\ \E i, j \in 1 .. Len(imp_threads) :
       /\ i < j
       /\ imp_threads[i].outcome = "failed"
       /\ imp_threads[j].outcome = "converted"

\* A thread that begins on an existing source whose <stem>.mbtiles exists ends
\* as skipped, without entering the converter.
SkipsImported ==
  \A i \in 1 .. Len(imp_threads) :
    /\ (/\ imp_threads[i].pc = "emitted"
         /\ imp_threads'[i] # imp_threads[i]
         /\ imp_input.files[i].exists
         /\ mbtiles_exists(imp_dir, imp_input.files[i].stem))
        => imp_threads'[i].pc = "skipping"
    /\ (imp_threads[i].pc = "skipping" /\ imp_threads'[i] # imp_threads[i])
        => (imp_threads'[i].pc = "done" /\ imp_threads'[i].outcome = "skipped")

\* The import is a finished repeat of a run in which no file failed.
RepeatComplete ==
  /\ imp_run.phase = "complete"
  /\ imp_run.previous # None
  /\ imp_run.previous.val.failed = 0

\* The repeat has converted nothing.
ConvertsNothing ==
  /\ imp_run.result.converted = 0
  /\ imp_run.result.skipped = imp_run.result.total_found

\* remove_chart has deleted no chart that the import has a source for.
NoneRemoved ==
  \A i \in 1 .. Len(imp_input.files) :
    imp_input.files[i].stem \notin imp_run.charts.removed

\* A step of an import's thread in a repeat of a run in which no file
\* failed.
RepeatStep ==
  /\ imp_run.previous # None
  /\ imp_run.previous.val.failed = 0
  /\ imp_threads' # imp_threads

ConvFiles == {"expanded.tif", "warped.tif", "mbtiles"}

EmptyDir == [f \in ConvFiles |-> "none"]

\* The output file of an external command after the command ended: written
\* whole on success, in part when it failed after it began to write,
\* untouched otherwise.
ToolWrites(dir, file, outcome) ==
  CASE outcome = "success" -> [dir EXCEPT ![file] = "whole"]
    [] outcome = "exit_failure_partial" -> [dir EXCEPT ![file] = "partial"]
    [] OTHER -> dir

\* `let _ = std::fs::remove_file(..)`
remove_file(dir, file) == [dir EXCEPT ![file] = "none"]

\* `return Err(..)` / `Ok(output_path.to_path_buf())`
Returned(call, ok, error) ==
  [call EXCEPT !.pc = "returned", !.result = Some([ok |-> ok, error |-> error])]

\* A command's `?` (it did not start) or its exit status ends the call.
ToolError(outcome, message) ==
  IF outcome = "spawn_error" THEN "IoError" ELSE message

\* The callers are the threads of one chunk whose files have the same stem,
\* and later imports of the stem; each calls the converter when it finds no
\* <stem>.mbtiles, up to MaxAttempts times.
MaxCallers == 2
MaxAttempts == 3
Callers == 1 .. MaxCallers

NotCalled == [pc |-> "idle", attempt |-> 0, tools |-> << >>, result |-> None]

NewCall(attempt) == [pc |-> "check_gdal", attempt |-> attempt, tools |-> << >>, result |-> None]

InitConvert ==
  /\ ChartIdle
  /\ AppIdleExcept("convert")
  /\ conv_dir = EmptyDir
  /\ conv_calls = [c \in Callers |-> NotCalled]

\* A caller whose `mbtiles_path.exists()` is false calls convert_to_mbtiles,
\* whatever the other callers are doing.
ConvertAgain ==
  \E c \in Callers :
    /\ conv_calls[c].pc \in {"idle", "returned"}
    /\ conv_calls[c].attempt < MaxAttempts
    /\ ~(conv_dir["mbtiles"] # "none")
    /\ conv_calls' = [conv_calls EXCEPT ![c] = NewCall(conv_calls[c].attempt + 1)]
    /\ UNCHANGED << beside_convert_vars, conv_dir >>

\* `if !gdal_info.available { return Err(ConversionError::GdalNotFound) }`
CheckGdal ==
  \E c \in Callers, available \in BOOLEAN :
    /\ conv_calls[c].pc = "check_gdal"
    /\ conv_calls' =
         [conv_calls EXCEPT
            ![c] = IF available THEN [@ EXCEPT !.pc = "expand"]
                   ELSE Returned(@, FALSE, "GdalNotFound")]
    /\ UNCHANGED << beside_convert_vars, conv_dir >>

\* Step 1: gdal_translate -expand rgba input <stem>.expanded.tif
ExpandPalette ==
  \E c \in Callers, outcome \in ToolOutcomes :
    LET call == [conv_calls[c] EXCEPT !.tools = Append(@, outcome)]
    IN /\ conv_calls[c].pc = "expand"
       /\ conv_dir' = ToolWrites(conv_dir, "expanded.tif", outcome)
       /\ conv_calls' =
            [conv_calls EXCEPT
               ![c] = IF outcome = "success" THEN [call EXCEPT !.pc = "reproject"]
                      ELSE Returned(call, FALSE, ToolError(outcome, "Failed to expand palette"))]
       /\ UNCHANGED beside_convert_vars

\* Step 2: gdalwarp <stem>.expanded.tif <stem>.warped.tif; its `?` returns
\* when the command did not start.
Reproject ==
  \E c \in Callers, outcome \in ToolOutcomes :
    LET call == [conv_calls[c] EXCEPT !.tools = Append(@, outcome)]
    IN /\ conv_calls[c].pc = "reproject"
       /\ conv_dir' = ToolWrites(conv_dir, "warped.tif", outcome)
       /\ conv_calls' =
            [conv_calls EXCEPT
               ![c] = IF outcome = "spawn_error" THEN Returned(call, FALSE, "IoError")
                      ELSE [call EXCEPT !.pc = "reprojected"]]
       /\ UNCHANGED beside_convert_vars

\* `let _ = std::fs::remove_file(&temp_expanded)`, and when gdalwarp failed
\* the warped file is removed too and the call returns.
ReprojectCleanup ==
  \E c \in Callers :
    LET call == conv_calls[c]
        failed == call.tools[Len(call.tools)] # "success"
        expanded_gone == remove_file(conv_dir, "expanded.tif")
    IN /\ call.pc = "reprojected"
       /\ conv_dir' = IF failed THEN remove_file(expanded_gone, "warped.tif")
                      ELSE expanded_gone
       /\ conv_calls' =
            [conv_calls EXCEPT
               ![c] = IF failed THEN Returned(call, FALSE, "Failed to reproject")
                      ELSE [call EXCEPT !.pc = "mbtiles"]]
       /\ UNCHANGED beside_convert_vars

\* Step 3: gdal_translate -of MBTiles <stem>.warped.tif <stem>.mbtiles
BuildMbtiles ==
  \E c \in Callers, outcome \in ToolOutcomes :
    LET call == [conv_calls[c] EXCEPT !.tools = Append(@, outcome)]
    IN /\ conv_calls[c].pc = "mbtiles"
       /\ conv_dir' = ToolWrites(conv_dir, "mbtiles", outcome)
       /\ conv_calls' =
            [conv_calls EXCEPT
               ![c] = IF outcome = "spawn_error" THEN Returned(call, FALSE, "IoError")
                      ELSE [call EXCEPT !.pc = "built"]]
       /\ UNCHANGED beside_convert_vars

\* `let _ = std::fs::remove_file(&temp_warped)`, then the exit status of the
\* command is read.
BuildCleanup ==
  \E c \in Callers :
    LET call == conv_calls[c]
        failed == call.tools[Len(call.tools)] # "success"
    IN /\ call.pc = "built"
       /\ conv_dir' = remove_file(conv_dir, "warped.tif")
       /\ conv_calls' =
            [conv_calls EXCEPT
               ![c] = IF failed THEN Returned(call, FALSE, "Failed to create MBTiles")
                      ELSE [call EXCEPT !.pc = "overviews"]]
       /\ UNCHANGED beside_convert_vars

\* Step 4: gdaladdo on <stem>.mbtiles, and write_mbtiles_bounds when the source
\* chart had bounds; their failures are logged and the call returns Ok.
BuildOverviews ==
  \E c \in Callers, outcome \in ToolOutcomes,
     bounds \in {"no_bounds", "written", "write_failed"} :
    /\ conv_calls[c].pc = "overviews"
    /\ conv_calls' =
         [conv_calls EXCEPT
            ![c] = Returned([@ EXCEPT !.tools = Append(@, outcome) \o << bounds >>],
                            TRUE, "none")]
    /\ UNCHANGED << beside_convert_vars, conv_dir >>

NextConvert ==
  \/ ConvertAgain \/ CheckGdal \/ ExpandPalette \/ Reproject \/ ReprojectCleanup
  \/ BuildMbtiles \/ BuildCleanup \/ BuildOverviews

SpecConvert == InitConvert /\ [][NextConvert]_vars

ConversionFailed(c) ==
  conv_calls[c].pc = "returned" /\ ~unwrap_or(conv_calls[c].result, [ok |-> TRUE]).ok

\* No other caller has called the converter.
CallsAlone(c) == \A d \in Callers \ {c} : conv_calls[d] = NotCalled

\* The first call, alone on an empty directory, ends as the summary
\* convert_bsb_to_mbtiles used by the import says.
FirstCallAgrees ==
  \A c \in Callers :
    (/\ CallsAlone(c)
     /\ conv_calls[c].pc = "returned"
     /\ conv_calls[c].attempt = 1
     /\ Len(conv_calls[c].tools) > 0) =>
      LET call == conv_calls[c]
          Tool(k) == IF k <= Len(call.tools) THEN call.tools[k] ELSE "success"
          summary == convert_bsb_to_mbtiles(Tool(1), Tool(2), Tool(3))
      IN /\ summary.ok = call.result.val.ok
         /\ summary.left = { f \in ConvFiles : conv_dir[f] # "none" }

\* C20: after a conversion that failed at any step the charts directory holds
\* no <stem>.mbtiles, no <stem>.expanded.tif and no <stem>.warped.tif, so the
\* file is not taken as already imported.
C20_FailureLeavesNothing ==
  \A c \in Callers :
    (ConversionFailed(c) /\ CallsAlone(c)) => \A f \in ConvFiles : conv_dir[f] = "none"

\* ---------------------------------------------------------------------------
\* commands.rs: the "import-progress" events of one import, as a listener
\* receives them
\* ---------------------------------------------------------------------------

\* The .mbtiles files an earlier import (run 0) may have left in the charts
\* directory.
EarlierImports ==
  { [stem |-> file.stem, by |-> 0, empty |-> FALSE] :
      file \in { f \in SourceFiles : f.exists } }

InitProgress ==
  /\ ChartIdle
  /\ AppIdleExcept("import")
  /\ imp_input \in { input \in ImportInputs : ValidInput(input) /\ input.hangs = {} }
  /\ imp_events = EventsBeforeFiles(imp_input)
  /\ imp_dir \in SUBSET EarlierImports
  /\ imp_threads = [i \in 1 .. Len(imp_input.files) |-> WaitingThread]
  /\ imp_run = [run |-> 1, phase |-> "converting", counters |-> NoCounters,
                result |-> NewResult(imp_input), previous |-> None, dir_before |-> imp_dir,
                charts |-> NoChartCommands]

NextProgress ==
  \/ SpawnChunk \/ BeginEmit \/ LoadCounter \/ EmitProgress
  \/ CheckFiles \/ SkipFile \/ Translate \/ Finish \/ WriteMetadata \/ WriteDescription
  \/ CompleteEmit

SpecProgress == InitProgress /\ [][NextProgress]_vars

\* C21: the progress event that reports file F is emitted only after F's
\* conversion and metadata writes have finished (F's thread or iteration has
\* its outcome), and its counts include F's own outcome.
C21_ProgressAfterConversion ==
  \A k \in 1 .. Len(imp_events) :
    imp_events[k].file # 0 =>
      LET event == imp_events[k]
          thread == imp_threads[event.file]
      IN /\ thread.pc = "done"
         /\ thread.outcome = "converted" => event.converted >= 1
         /\ thread.outcome = "skipped" => event.skipped >= 1
         /\ thread.outcome = "failed" => event.failed >= 1

\* ---------------------------------------------------------------------------
\* commands.rs: an import during which the user asks for cancellation
\* ---------------------------------------------------------------------------

\* import_selected_charts takes file_paths, the application handle and the
\* state; neither import has a cancellation flag among its parameters, its
\* shared counters or its loop conditions.  The request is therefore an event
\* of the environment that no step of the import reads.
RequestCancel ==
  /\ imp_run.phase = "converting"
  /\ ~imp_cancel
  /\ imp_cancel' = TRUE
  /\ UNCHANGED beside_cancel_vars

NextCancel ==
  \/ SpawnChunk \/ Begin \/ CheckFiles \/ SkipFile \/ Translate \/ Finish
  \/ WriteMetadata \/ WriteDescription
  \/ Complete \/ RequestCancel

SpecCancel == InitReturning /\ [][NextCancel]_vars

\* A work item not yet taken when the step begins is taken by it.
TakesWorkItem(i) ==
  /\ i <= Len(imp_threads)
  /\ imp_threads[i].pc = "waiting"
  /\ imp_threads'[i].pc # "waiting"

\* C22: once cancellation is requested no further work item is taken (only
\* the conversions already in flight run to completion), and the import ends
\* with the remaining work items unprocessed.
C22_CancelStopsNewWork ==
  [][imp_cancel => \A i \in 1 .. MaxFiles : ~TakesWorkItem(i)]_vars

\* C28: during import_selected_charts no two threads are inside a conversion
\* for the same <stem>.mbtiles (and so the same <stem>.expanded.tif and
\* <stem>.warped.tif) at the same time, also when two selected files have the
\* same stem.
C28_NoSharedTarget ==
  \A i \in InFlight, j \in InFlight :
    i # j => imp_input.files[i].stem # imp_input.files[j].stem

\* ---------------------------------------------------------------------------
\* commands.rs: parse_bsb_full and extract_field; text is a sequence of
\* one-character strings
\* ---------------------------------------------------------------------------

\* `s[from..]` and `s[..to]` with 1-based positions
TextFrom(text, from) == SubSeq(text, from, Len(text))

\* `line.starts_with(..)`
starts_with(text, prefix) ==
  Len(prefix) <= Len(text) /\ SubSeq(text, 1, Len(prefix)) = prefix

ends_with(text, suffix) ==
  Len(suffix) <= Len(text) /\ TextFrom(text, Len(text) - Len(suffix) + 1) = suffix

\* `str::find`: the first position where the pattern starts, 0 for None
find(text, pattern) ==
  LET hits == { k \in 1 .. Len(text) : starts_with(TextFrom(text, k), pattern) }
  IN IF hits = {} THEN 0 ELSE SetMin(hits)

Whitespace == {" ", "\t"}

\* `str::trim`
trim(text) ==
  LET inked == { k \in 1 .. Len(text) : text[k] \notin Whitespace }
  IN IF inked = {} THEN << >> ELSE SubSeq(text, SetMin(inked), SetMax(inked))

\* `str::trim_end_matches(suffix)`: the suffix is removed as often as it ends
\* the text
RECURSIVE trim_end_matches(_, _)
trim_end_matches(text, suffix) ==
  IF ends_with(text, suffix)
  THEN trim_end_matches(SubSeq(text, 1, Len(text) - Len(suffix)), suffix)
  ELSE text

\* `str::to_uppercase` on the letters of the alphabet in use
UpperOf == [c \in {"a", "b", "k", "p"} |->
              CASE c = "a" -> "A" [] c = "b" -> "B" [] c = "k" -> "K" [] c = "p" -> "P"]

to_uppercase(text) ==
  [k \in 1 .. Len(text) |-> IF text[k] \in DOMAIN UpperOf THEN UpperOf[text[k]] ELSE text[k]]

\* `str::split(sep)`
RECURSIVE split(_, _)
split(text, sep) ==
  LET at == find(text, << sep >>)
  IN IF at = 0 THEN << text >>
     ELSE << SubSeq(text, 1, at - 1) >> \o split(TextFrom(text, at + 1), sep)

\* extract_field(line, field): the trimmed value up to the next comma, None
\* when the field is absent or its value empty
extract_field(line, field) ==
  LET start == find(line, field)
      rest == TextFrom(line, start + Len(field))
      comma == find(rest, << "," >>)
      value == trim(IF comma = 0 THEN rest ELSE SubSeq(rest, 1, comma - 1))
  IN IF start = 0 \/ value = << >> THEN None ELSE Some(value)

\* One iteration of the joining loop; without the comma in the variant.
JoinLine_NoComma(joined_lines, line) ==
  IF starts_with(line, << " " >>) \/ starts_with(line, << "\t" >>)
  THEN IF joined_lines = << >> THEN joined_lines
       ELSE [joined_lines EXCEPT ![Len(joined_lines)] = @ \o trim(line)]
  ELSE Append(joined_lines, line)

JoinLine(joined_lines, line) ==
  IF starts_with(line, << " " >>) \/ starts_with(line, << "\t" >>)
  THEN IF joined_lines = << >> THEN joined_lines
       ELSE [joined_lines EXCEPT ![Len(joined_lines)] = @ \o << "," >> \o trim(line)]
  ELSE Append(joined_lines, line)

\* `for line in content.lines() { .. }`
RECURSIVE JoinLines(_, _)
JoinLines(lines, n) ==
  IF n = 0 THEN << >> ELSE JoinLine(JoinLines(lines, n - 1), lines[n])

Digits == {"0", "1", "2", "3", "4", "5", "6", "7", "8", "9"}

\* NTM/..ND=MM/DD/YYYY: the date as YYYY-MM-DD, or the date so far
NtmDate(line, edition_date) ==
  LET nd == extract_field(line, << "N", "D", "=" >>)
      parts == split(unwrap_or(nd, << >>), "/")
  IN IF starts_with(line, << "N", "T", "M", "/" >>) /\ nd.some /\ Len(parts) = 3
     THEN Some(parts[3] \o << "-" >> \o parts[1] \o << "-" >> \o parts[2])
     ELSE edition_date

\* CED/..SE=YYYYMMDD: the date as YYYY-MM-DD, or the edition so far
CedEdition(line, source_edition) ==
  LET se == extract_field(line, << "S", "E", "=" >>)
      text == unwrap_or(se, << >>)
  IN IF starts_with(line, << "C", "E", "D", "/" >>) /\ se.some /\ Len(text) = 8
     THEN Some(SubSeq(text, 1, 4) \o << "-" >> \o SubSeq(text, 5, 6) \o << "-" >>
               \o SubSeq(text, 7, 8))
     ELSE source_edition

\* K<digits>/ lines with NA= and FN=: the record they push, if any
ChartRecord(line, edition_date, source_edition) ==
  LET slash_pos == find(line, << "/" >>)
      prefix == SubSeq(line, 1, slash_pos - 1)
      rest == TextFrom(line, slash_pos + 1)
      title == extract_field(rest, << "N", "A", "=" >>)
      chart_type == extract_field(rest, << "T", "Y", "=" >>)
      filename == extract_field(rest, << "F", "N", "=" >>)
  IN IF /\ starts_with(line, << "K" >>) /\ Len(line) > 3
        /\ slash_pos # 0
        /\ Len(prefix) >= 2 /\ \A k \in 2 .. Len(prefix) : prefix[k] \in Digits
        /\ title.some /\ filename.some
     THEN Some([chart_id |->
                  to_uppercase(trim_end_matches(
                    trim_end_matches(filename.val, << ".", "K", "A", "P" >>),
                    << ".", "k", "a", "p" >>)),
                title |-> title.val, chart_type |-> chart_type,
                edition_date |-> edition_date, source_edition |-> source_edition])
     ELSE None

\* One iteration of `for line in &joined_lines`
ExtractLine(state, joined_line) ==
  LET line == trim(joined_line)
      edition_date == NtmDate(line, state.edition_date)
      source_edition == CedEdition(line, state.source_edition)
      record == ChartRecord(line, edition_date, source_edition)
  IN [edition_date |-> edition_date, source_edition |-> source_edition,
      results |-> IF record.some THEN Append(state.results, record.val) ELSE state.results]

RECURSIVE ExtractLines(_, _)
ExtractLines(joined_lines, n) ==
  IF n = 0 THEN [edition_date |-> None, source_edition |-> None, results |-> << >>]
  ELSE ExtractLine(ExtractLines(joined_lines, n - 1), joined_lines[n])

\* parse_bsb_full on a file that could be read
parse_bsb_full(lines) ==
  LET joined_lines == JoinLines(lines, Len(lines))
  IN ExtractLines(joined_lines, Len(joined_lines)).results

\* The lines the files are made of: a K entry with NA= only, continuation
\* lines (space, tab) with TY= and FN=, a K entry on one line, a K entry
\* without NA=, and the global NTM/ and CED/ lines.
KHead == [kind |-> "k_head",
          text |-> << "K", "0", "1", "/", "N", "A", "=", "T", " ", "a" >>]
ContSpace == [kind |-> "continuation",
              text |-> << " ", " ", "T", "Y", "=", "B", ",", "F", "N", "=", "a", "b", ".", "k", "a", "p" >>]
ContTab == [kind |-> "continuation",
            text |-> << "\t", "N", "U", "=", "7", ",", "T", "Y", "=", "I", ",", "F", "N", "=", "b", "1", ".", "K", "A", "P" >>]
KWhole == [kind |-> "k_whole",
           text |-> << "K", "0", "2", "/", "N", "A", "=", "U", ",", "T", "Y", "=", "B", ",", "F", "N", "=", "p", "2", ".", "K", "A", "P" >>]
KNoName == [kind |-> "k_no_name",
            text |-> << "K", "0", "3", "/", "T", "Y", "=", "B", ",", "F", "N", "=", "k", "3", ".", "K", "A", "P" >>]
NtmLine == [kind |-> "ntm",
            text |-> << "N", "T", "M", "/", "N", "E", "=", "2", ",", "N", "D", "=", "0", "3", "/", "1", "4", "/", "2", "0", "2", "3" >>]
CedLine == [kind |-> "ced",
            text |-> << "C", "E", "D", "/", "S", "E", "=", "2", "0", "1", "7", "0", "5", "0", "1", ",", "R", "E", "=", "1" >>]

BsbLines == {KHead, ContSpace, ContTab, KWhole, KNoName, NtmLine, CedLine}

MaxLines == 3

BsbFiles == UNION { [1 .. n -> BsbLines] : n \in 1 .. MaxLines }

TextsOf(file) == [k \in 1 .. Len(file) |-> file[k].text]

InitBsb ==
  /\ ChartIdle
  /\ AppIdleExcept("bsb")
  /\ bsb_file \in BsbFiles
  /\ bsb_call = [pc |-> "read"]

\* The file is read and its continuation lines are joined.
JoinContinuationLines ==
  /\ bsb_call.pc = "read"
  /\ bsb_call' = [pc |-> "joined",
                  joined_lines |-> JoinLines(TextsOf(bsb_file), Len(bsb_file))]
  /\ UNCHANGED << beside_bsb_vars, bsb_file >>

\* The joined lines are scanned and the records returned.
ExtractMetadata ==
  /\ bsb_call.pc = "joined"
  /\ bsb_call' = [pc |-> "returned", joined_lines |-> bsb_call.joined_lines,
                  results |-> ExtractLines(bsb_call.joined_lines,
                                           Len(bsb_call.joined_lines)).results]
  /\ UNCHANGED << beside_bsb_vars, bsb_file >>

NextBsb == JoinContinuationLines \/ ExtractMetadata

SpecBsb == InitBsb /\ [][NextBsb]_vars

\* What the file format says of the lines above: the title a K line gives, and
\* the type and the chart id (FN without .KAP, in upper case) a line gives.
TitleOf(line) ==
  CASE line = KHead -> << "T", " ", "a" >>
    [] line = KWhole -> << "U" >>
    [] OTHER -> << >>

TypeOf(line) ==
  CASE line = ContSpace -> << "B" >>
    [] line = ContTab -> << "I" >>
    [] line = KWhole -> << "B" >>
    [] OTHER -> << >>

ChartIdOf(line) ==
  CASE line = ContSpace -> << "A", "B" >>
    [] line = ContTab -> << "B", "1" >>
    [] line = KWhole -> << "P", "2" >>
    [] OTHER -> << >>

\* The record of the entry that starts at line k of the file, if it has one:
\* a K line with NA=, TY= and FN=, or a K line with NA= whose first
\* continuation line has TY= and FN=.
EntryRecord(file, k) ==
  IF file[k] = KWhole
  THEN Some([chart_id |-> ChartIdOf(KWhole), title |-> TitleOf(KWhole),
             chart_type |-> Some(TypeOf(KWhole))])
  ELSE IF file[k] = KHead /\ k < Len(file) /\ file[k + 1].kind = "continuation"
  THEN Some([chart_id |-> ChartIdOf(file[k + 1]), title |-> TitleOf(KHead),
             chart_type |-> Some(TypeOf(file[k + 1]))])
  ELSE None

DocumentedRecords(file) ==
  LET entries == SelectSeq([k \in 1 .. Len(file) |-> k], LAMBDA k : EntryRecord(file, k).some)
  IN [n \in 1 .. Len(entries) |-> EntryRecord(file, entries[n]).val]

ChartsOf(results) ==
  [n \in 1 .. Len(results) |->
     [chart_id |-> results[n].chart_id, title |-> results[n].title,
      chart_type |-> results[n].chart_type]]

\* C23: continuation lines (space or tab first) are joined to the line before
\* with a comma before fields are extracted: a K entry with NA= on its first
\* line and TY=, FN= on a continuation line gives exactly one record with
\* chart_id = FN without .KAP in upper case, that title and that type; an
\* entry without NA= or without FN= gives none.
C23_ContinuationLinesJoined ==
  bsb_call.pc = "returned" => ChartsOf(bsb_call.results) = DocumentedRecords(bsb_file)

C23_Witness ==
  /\ bsb_call.pc = "returned"
  /\ bsb_file = << KNoName, KHead, ContTab >>
  /\ Len(bsb_call.results) = 1
  /\ bsb_call.results[1].chart_id = << "B", "1" >>

\* C27: every record carries the file's edition date (NTM/ line) and source
\* edition (CED/ line), wherever those lines stand relative to the K line.
C27_GlobalDatesOnEveryRecord ==
  bsb_call.pc = "returned" =>
    \A n \in 1 .. Len(bsb_call.results) :
      /\ (\E k \in 1 .. Len(bsb_file) : bsb_file[k] = NtmLine) =>
           bsb_call.results[n].edition_date
             = Some(<< "2", "0", "2", "3", "-", "0", "3", "-", "1", "4" >>)
      /\ (\E k \in 1 .. Len(bsb_file) : bsb_file[k] = CedLine) =>
           bsb_call.results[n].source_edition
             = Some(<< "2", "0", "1", "7", "-", "0", "5", "-", "0", "1" >>)

\* What does hold: a record carries the dates of the global lines that stand
\* before its K line.
DatesOfEarlierLines ==
  (bsb_call.pc = "returned" /\ bsb_file[1] = NtmLine /\ Len(bsb_call.results) > 0) =>
    bsb_call.results[1].edition_date
      = Some(<< "2", "0", "2", "3", "-", "0", "3", "-", "1", "4" >>)

(***************************************************************************)
(* Further claims about the cell parser (SpecParse): geometry assembly,    *)
(* short reads of references, and the end of the edge section.             *)
(***************************************************************************)
\* The latest iteration emitted a line or area.
LineEmitted ==
  /\ RecordParsed
  /\ Last.kind = "emitted"
  /\ Last.geom_prim % 16 \in {2, 4}

\* The vertices a reference stands for: its edge in reference direction, none
\* when it names no edge.
EdgeOfRef(ref) ==
  IF (ref.edge_index % 8192) < Len(parse_state.edge_geometries)
  THEN OrientedEdge(ref)
  ELSE << >>

\* The edges of the references, the first whole and every later one without
\* its first vertex.
RECURSIVE JoinedByPosition(_, _)
JoinedByPosition(refs, n) ==
  IF n = 0 THEN << >>
  ELSE IF n = 1 THEN EdgeOfRef(refs[1])
  ELSE JoinedByPosition(refs, n - 1) \o SkipFirst(EdgeOfRef(refs[n]))

\* The edges of the references, each whole while no vertex has been collected
\* and without its first vertex afterwards.
RECURSIVE JoinedAtJunctions(_, _)
JoinedAtJunctions(refs, n) ==
  IF n = 0 THEN << >>
  ELSE LET before == JoinedAtJunctions(refs, n - 1)
       IN IF before = << >> THEN EdgeOfRef(refs[n])
          ELSE before \o SkipFirst(EdgeOfRef(refs[n]))

\* C24 as stated: the vertices of a line or area are the referenced edges in
\* reference order (index = bits 0-12, reversed iff bit 13, reversed before
\* dropping), the edge at position 0 whole and every later edge without its
\* first vertex.
C24_Original ==
  LineEmitted =>
    LastFeature.geometry.points = JoinedByPosition(Last.refs, Len(Last.refs))

\* C24 amended: the same concatenation, where an edge loses its first vertex
\* only if a vertex has been collected before it; the first edge that has
\* vertices is taken whole at whatever position it stands.
C24_EdgesJoinedAtJunctions ==
  LineEmitted =>
    LastFeature.geometry.points = JoinedAtJunctions(Last.refs, Len(Last.refs))

\* C24 witness: a line whose first reference names an empty edge and whose
\* second reference is a reversed edge of two vertices, taken whole.
C24_Witness ==
  /\ LineEmitted
  /\ Len(Last.refs) = 2
  /\ EdgeOfRef(Last.refs[1]) = << >>
  /\ Bit(Last.refs[2].edge_index, 13) = 1
  /\ Len(EdgeOfRef(Last.refs[2])) = 2
  /\ EdgeOfRef(Last.refs[2])[1] # EdgeOfRef(Last.refs[2])[2]
  /\ LastFeature.geometry.points = EdgeOfRef(Last.refs[2])

\* The references whose two bytes were read from the buffer.
RefsRead(refs) == SelectSeq(refs, LAMBDA ref : ref.some)

\* C25: every vertex of a line or area comes from an edge whose reference was
\* read from inside the buffer; references the buffer ends before contribute
\* no vertices.
C25_OnlyReadReferences ==
  LineEmitted =>
    LastFeature.geometry.points
      = JoinedAtJunctions(RefsRead(Last.refs), Len(RefsRead(Last.refs)))

\* What does hold: of a record that lies inside the buffer every reference is read.
RefsReadInsideBuffer ==
  (LineEmitted /\ parse_state.offset <= Len(parse_file)) =>
    \A i \in 1 .. Len(Last.refs) : Last.refs[i].some

\* C26: the edge loop consumes no byte at an offset >= 138 + vector_table_len.
C26_EdgesStayInVectorSection ==
  parse_state.pc \in {"edges", "features", "ok"} =>
    parse_state.edge_read_end <= feature_section_start(parse_state)

\* ---------------------------------------------------------------------------
\* cm93/renderer.rs: MBTilesWriter::create, set_bounds, set_zoom_range and
\* finalize, on the metadata table of one file
\* ---------------------------------------------------------------------------

DigitText == << "0", "1", "2", "3", "4", "5", "6", "7", "8", "9" >>

\* `u8::to_string`, and `{}` of an f64 that holds a whole number
RECURSIVE to_string(_)
to_string(n) ==
  IF n < 0 THEN << "-" >> \o to_string(0 - n)
  ELSE IF n < 10 THEN << DigitText[n + 1] >>
  ELSE to_string(n \div 10) \o << DigitText[(n % 10) + 1] >>

\* `format!("{},{},{},{}", bounds[0], bounds[1], bounds[2], bounds[3])`
BoundsText(bounds) ==
  to_string(bounds[1]) \o << "," >> \o to_string(bounds[2]) \o << "," >>
  \o to_string(bounds[3]) \o << "," >> \o to_string(bounds[4])

\* `CREATE TABLE IF NOT EXISTS metadata (name TEXT, value TEXT)`: a table that
\* exists is kept with its rows; the table has no key and no unique index.
CreateMetadataTable(table) == IF table.some THEN table ELSE Some(<< >>)

\* `INSERT OR REPLACE INTO metadata (name, value)` with no uniqueness
\* constraint on the table to conflict with: the row is added.
InsertOrReplaceMetadata(rows, name, value) == Append(rows, [name |-> name, value |-> value])

\* The seven rows of finalize, in the order of its array.
FinalizeMetadata(writer) ==
  << [name |-> "name", value |-> writer.name],
     [name |-> "format", value |-> "png"],
     [name |-> "type", value |-> "overlay"],
     [name |-> "bounds", value |-> BoundsText(writer.bounds)],
     [name |-> "minzoom", value |-> to_string(writer.min_zoom)],
     [name |-> "maxzoom", value |-> to_string(writer.max_zoom)],
     [name |-> "description", value |-> "CM93 Base Nautical Chart"] >>

\* The connections open on one file, each behind its own MBTilesWriter.
MaxConnections == 2
Connections == 1 .. MaxConnections

\* No writer on a connection yet.  `calls` counts the finalize calls made
\* through the connection, `inserted` the rows the call in progress has added.
NoWriter ==
  [op |-> "none", name |-> "", bounds |-> << 0, 0, 0, 0 >>, min_zoom |-> 0,
   max_zoom |-> 0, pc |-> "idle", inserted |-> 0, result |-> "none", calls |-> 0]

\* The writer MBTilesWriter::create returns.
NewWriter(name) ==
  [op |-> "create", name |-> name, bounds |-> << -180, -85, 180, 85 >>,
   min_zoom |-> 0, max_zoom |-> 14, pc |-> "idle", inserted |-> 0, result |-> "none",
   calls |-> 0]

\* The calls made on one file: at most MaxFinalize finalize calls, the
\* writers of each connection under that connection's name, one other bounds
\* box and one other zoom range.
MaxFinalize == 2
WriterNames == << "CM93", "World" >>

\* The finalize calls made so far on the file.
RECURSIVE FinalizeCalls(_)
FinalizeCalls(n) == IF n = 0 THEN 0 ELSE mbw_writer[n].calls + FinalizeCalls(n - 1)

InitWriter ==
  /\ ChartIdle
  /\ AppIdleExcept("writer")
  /\ mbw_table = None
  /\ mbw_writer = [w \in Connections |-> NoWriter]

\* MBTilesWriter::create(path, name), on a new file or over an existing one;
\* the writer the connection had before is dropped.
MbtCreate ==
  \E w \in Connections :
    /\ mbw_writer[w].pc = "idle"
    /\ mbw_writer[w].op \in {"none", "finalize"}
    /\ mbw_writer' = [mbw_writer EXCEPT ![w] = [NewWriter(WriterNames[((w - 1) % 2) + 1])
                                                  EXCEPT !.calls = mbw_writer[w].calls]]
    /\ mbw_table' = CreateMetadataTable(mbw_table)
    /\ UNCHANGED beside_writer_vars

SetBounds ==
  \E w \in Connections :
    /\ mbw_writer[w].pc = "idle"
    /\ mbw_writer[w].op = "create"
    /\ mbw_writer' = [mbw_writer EXCEPT ![w].op = "set_bounds",
                                        ![w].bounds = << 10, -5, 20, 5 >>]
    /\ UNCHANGED << beside_writer_vars, mbw_table >>

SetZoomRange ==
  \E w \in Connections :
    /\ mbw_writer[w].pc = "idle"
    /\ mbw_writer[w].op \in {"create", "set_bounds"}
    /\ mbw_writer' = [mbw_writer EXCEPT ![w].op = "set_zoom_range",
                                        ![w].min_zoom = 3, ![w].max_zoom = 9]
    /\ UNCHANGED << beside_writer_vars, mbw_table >>

\* MBTilesWriter::finalize(&self) is called and builds its array of seven
\* rows; it can be called again on the same writer.
Finalize ==
  \E w \in Connections :
    /\ mbw_writer[w].pc = "idle"
    /\ mbw_writer[w].op # "none"
    /\ FinalizeCalls(MaxConnections) < MaxFinalize
    /\ mbw_writer' = [mbw_writer EXCEPT ![w].op = "finalize", ![w].pc = "inserting",
                                        ![w].inserted = 0, ![w].result = "none",
                                        ![w].calls = @ + 1]
    /\ UNCHANGED << beside_writer_vars, mbw_table >>

\* One turn of `for (name, value) in &metadata { self.conn.execute(..)?; }`:
\* the statement is a transaction of its own, so the other connection's
\* statements come between two turns.
FinalizeInsert ==
  \E w \in Connections :
    LET row == FinalizeMetadata(mbw_writer[w])[mbw_writer[w].inserted + 1]
    IN /\ mbw_writer[w].pc = "inserting"
       /\ mbw_table' = Some(InsertOrReplaceMetadata(mbw_table.val, row.name, row.value))
       /\ mbw_writer' =
            [mbw_writer EXCEPT ![w].inserted = @ + 1,
                               ![w].pc = IF mbw_writer[w].inserted + 1 = 7
                                         THEN "vacuum" ELSE "inserting"]
       /\ UNCHANGED beside_writer_vars

\* The statement fails (the file is locked or cannot be written): `?` returns
\* the Err and the rows of the earlier turns stay.
FinalizeInsertFails ==
  \E w \in Connections :
    /\ mbw_writer[w].pc = "inserting"
    /\ mbw_writer' = [mbw_writer EXCEPT ![w].pc = "idle", ![w].result = "err"]
    /\ UNCHANGED << beside_writer_vars, mbw_table >>

\* `self.conn.execute_batch("VACUUM").ok(); Ok(())`: the rows stay as they
\* are whether VACUUM ran or not.
FinalizeReturn ==
  \E w \in Connections :
    /\ mbw_writer[w].pc = "vacuum"
    /\ mbw_writer' = [mbw_writer EXCEPT ![w].pc = "idle", ![w].result = "ok"]
    /\ UNCHANGED << beside_writer_vars, mbw_table >>

NextWriter ==
  \/ MbtCreate
  \/ SetBounds
  \/ SetZoomRange
  \/ Finalize
  \/ FinalizeInsert
  \/ FinalizeInsertFails
  \/ FinalizeReturn

SpecWriter == InitWriter /\ [][NextWriter]_vars

FinalizeKeys == {"name", "format", "type", "bounds", "minzoom", "maxzoom", "description"}

\* A finalize call of some writer has returned Ok.
Finalized == \E w \in Connections : mbw_writer[w].result = "ok"

\* C29: after finalize the metadata table holds exactly one row for each of
\* name, format, type, bounds, minzoom, maxzoom and description, also over an
\* existing file and after repeated finalize calls.
C29_OneRowPerKey ==
  Finalized =>
    \A key \in FinalizeKeys :
      Cardinality({ k \in 1 .. Len(mbw_table.val) : mbw_table.val[k].name = key }) = 1

\* What does hold: a finalize that returned Ok on a file where no other call
\* left a row has written the seven keys once.
FirstFinalizeWritesOnce ==
  (Finalized /\ Len(mbw_table.val) <= 7) =>
    \A key \in FinalizeKeys :
      Cardinality({ k \in 1 .. Len(mbw_table.val) : mbw_table.val[k].name = key }) = 1

\* ---------------------------------------------------------------------------
\* gps.rs: GpsManager::start and stop, and the reader threads they leave
\* ---------------------------------------------------------------------------

\* `const MAX_RETRIES: u32 = 3`
MAX_RETRIES == 3

\* The start calls that spawn a reader on one manager.
MaxStarts == 2

\* The lines starting with `$` one read_from_serial call counts, and the
\* turns of the loop of run_simulated_gps.
MaxSentences == 1

\* GpsSourceConfig: the type, whether port_name is Some, enabled, priority
GpsSource(source_type, port_name, enabled, priority) ==
  [source_type |-> source_type, port_name |-> port_name, enabled |-> enabled,
   priority |-> priority]

\* The source lists given to set_sources.
SourceConfigs ==
  { << >>,
    << GpsSource("SerialPort", TRUE, FALSE, 1) >>,
    << GpsSource("SerialPort", TRUE, TRUE, 1) >>,
    << GpsSource("SerialPort", FALSE, TRUE, 1) >>,
    << GpsSource("TcpStream", FALSE, TRUE, 1) >>,
    << GpsSource("SerialPort", TRUE, TRUE, 2), GpsSource("Simulated", FALSE, TRUE, 1) >> }

\* `sources.into_iter().filter(|s| s.enabled).collect()`
RECURSIVE FilterEnabled(_)
FilterEnabled(sources) ==
  IF sources = << >> THEN << >>
  ELSE IF Head(sources).enabled THEN << Head(sources) >> \o FilterEnabled(Tail(sources))
  ELSE FilterEnabled(Tail(sources))

\* `enabled_sources.sort_by_key(|s| s.priority)`: a stable sort
RECURSIVE SortByPriority(_)
SortByPriority(sources) ==
  IF sources = << >> THEN << >>
  ELSE LET lowest == CHOOSE i \in 1 .. Len(sources) :
                       /\ \A j \in 1 .. Len(sources) : sources[i].priority <= sources[j].priority
                       /\ \A j \in 1 .. (i - 1) : sources[j].priority > sources[i].priority
       IN << sources[lowest] >>
          \o SortByPriority(SubSeq(sources, 1, lowest - 1)
                            \o SubSeq(sources, lowest + 1, Len(sources)))

\* The enabled sources of start(), highest priority (lowest number) first.
enabled_sources(sources) == SortByPriority(FilterEnabled(sources))

\* A write to the fields of GpsManager.status by the manager (0) or by a
\* reader thread.
StatusBy(status, by) == [gps_status EXCEPT !.status = status, !.by = by]
SentencesBy(sentences_received, by) ==
  [gps_status EXCEPT !.sentences_received = sentences_received, !.by = by]

AliveThreads == { t \in 1 .. Len(gps_threads) : gps_threads[t].pc # "exited" }

\* GpsManager::new()
InitGps ==
  /\ ChartIdle
  /\ AppIdleExcept("gps")
  /\ gps_stop_flag = FALSE
  /\ gps_handle = None
  /\ gps_status = [status |-> "Disconnected", by |-> 0, sentences_received |-> 0]
  /\ gps_data = 0
  /\ gps_threads = << >>
  /\ gps_mgr = [pc |-> "idle", sources |-> << >>, enabled |-> << >>, result |-> "none"]

\* set_sources, between two calls of start or stop: the readers spawned
\* before keep the list they were given.
SetSources ==
  /\ gps_mgr.pc = "idle"
  /\ \E sources \in SourceConfigs \ {gps_mgr.sources} :
       gps_mgr' = [gps_mgr EXCEPT !.sources = sources]
  /\ UNCHANGED << beside_gps_vars, gps_stop_flag, gps_handle, gps_status, gps_data, gps_threads >>

\* stop(), called by the user or as the first line of start(): the flag is
\* set and the handle taken; with a handle the caller sleeps 100 ms and drops
\* it, which detaches the thread without joining it.
StopFlagSet(caller) ==
  /\ gps_mgr.pc = "idle"
  /\ gps_stop_flag' = TRUE
  /\ gps_handle' = None
  /\ gps_mgr' = [gps_mgr EXCEPT !.pc = caller, !.result = "none"]
  /\ UNCHANGED << beside_gps_vars, gps_status, gps_data, gps_threads >>

StopBegin == StopFlagSet("stop")

StartBegin ==
  /\ Len(gps_threads) < MaxStarts
  /\ StopFlagSet("start")

\* The end of stop(): `status.status = GpsConnectionStatus::Disconnected`
StopReturn ==
  /\ gps_mgr.pc \in {"stop", "start"}
  /\ gps_status' = StatusBy("Disconnected", 0)
  /\ gps_mgr' = [gps_mgr EXCEPT !.pc = IF gps_mgr.pc = "stop" THEN "idle" ELSE "start_body"]
  /\ UNCHANGED << beside_gps_vars, gps_stop_flag, gps_handle, gps_data, gps_threads >>

\* start() after stop(): the sources are read; with none, or none enabled,
\* it returns NoSourcesConfigured; otherwise the stop flag is reset.
StartSources ==
  /\ gps_mgr.pc = "start_body"
  /\ IF enabled_sources(gps_mgr.sources) = << >>
     THEN /\ gps_mgr' = [gps_mgr EXCEPT !.pc = "idle", !.result = "NoSourcesConfigured"]
          /\ UNCHANGED gps_stop_flag
     ELSE /\ gps_mgr' = [gps_mgr EXCEPT !.pc = "spawn",
                                        !.enabled = enabled_sources(gps_mgr.sources)]
          /\ gps_stop_flag' = FALSE
  /\ UNCHANGED << beside_gps_vars, gps_handle, gps_status, gps_data, gps_threads >>

\* `thread::spawn(..)`: the reader runs from here on, on the manager's flag
\* and with its own copy of the enabled sources.
StartSpawn ==
  /\ gps_mgr.pc = "spawn"
  /\ gps_threads' = Append(gps_threads, [pc |-> "outer", idx |-> 0, retry_count |-> 0,
                                         sentences_received |-> 0,
                                         sources |-> gps_mgr.enabled])
  /\ gps_mgr' = [gps_mgr EXCEPT !.pc = "handle"]
  /\ UNCHANGED << beside_gps_vars, gps_stop_flag, gps_handle, gps_status, gps_data >>

\* `*self.reader_handle.lock().unwrap() = Some(handle)`
StartHandle ==
  /\ gps_mgr.pc = "handle"
  /\ gps_handle' = Some(Len(gps_threads))
  /\ gps_mgr' = [gps_mgr EXCEPT !.pc = "status"]
  /\ UNCHANGED << beside_gps_vars, gps_stop_flag, gps_status, gps_data, gps_threads >>

\* The end of start(): the status is set to Connecting, over whatever the
\* reader has written since it was spawned.
StartStatus ==
  /\ gps_mgr.pc = "status"
  /\ gps_status' = StatusBy("Connecting", 0)
  /\ gps_mgr' = [gps_mgr EXCEPT !.pc = "idle", !.enabled = << >>, !.result = "Ok"]
  /\ UNCHANGED << beside_gps_vars, gps_stop_flag, gps_handle, gps_data, gps_threads >>

\* reader_thread: `while !stop_flag.load(..)`, the wrap of the source index
\* with its retry count (past MAX_RETRIES the thread goes on to report the
\* failure), and the match on the source: a serial port with a name is
\* opened, a simulated source runs, any other source is passed over.
ReaderOuter(t) ==
  LET thread == gps_threads[t]
  IN /\ thread.pc = "outer"
     /\ IF gps_stop_flag
        THEN /\ gps_threads' = [gps_threads EXCEPT ![t].pc = "exited"]
             /\ UNCHANGED gps_status
        ELSE IF thread.idx >= Len(thread.sources)
        THEN IF thread.retry_count + 1 > MAX_RETRIES
             THEN /\ gps_threads' = [gps_threads EXCEPT ![t].pc = "failed", ![t].idx = 0,
                                                      ![t].retry_count = @ + 1]
                  /\ UNCHANGED gps_status
             ELSE /\ gps_threads' = [gps_threads EXCEPT ![t].idx = 0, ![t].retry_count = @ + 1]
                  /\ UNCHANGED gps_status
        ELSE LET source == thread.sources[thread.idx + 1]
             IN /\ gps_threads' =
                     IF source.source_type = "SerialPort" /\ source.port_name
                     THEN [gps_threads EXCEPT ![t].pc = "open"]
                     ELSE IF source.source_type = "Simulated"
                     THEN [gps_threads EXCEPT ![t].pc = "simulated"]
                     ELSE [gps_threads EXCEPT ![t].idx = @ + 1]
                /\ UNCHANGED gps_status
     /\ UNCHANGED << beside_gps_vars, gps_stop_flag, gps_handle, gps_data, gps_mgr >>

\* reader_thread past MAX_RETRIES: the status is set to Error ("All GPS
\* sources failed"), whatever the flag and the status have become since the
\* loop condition was tested, and the thread returns.
ReaderFailed(t) ==
  /\ gps_threads[t].pc = "failed"
  /\ gps_status' = StatusBy("Error", t)
  /\ gps_threads' = [gps_threads EXCEPT ![t].pc = "exited"]
  /\ UNCHANGED << beside_gps_vars, gps_stop_flag, gps_handle, gps_data, gps_mgr >>

\* read_from_serial: the port opens (status Connected) or does not (the error
\* is recorded by reader_thread, which goes to the next source).
ReaderOpen(t) ==
  /\ gps_threads[t].pc = "open"
  /\ \E opened \in BOOLEAN :
       IF opened
       THEN /\ gps_threads' = [gps_threads EXCEPT ![t].pc = "inner",
                                                ![t].sentences_received = 0]
            /\ gps_status' = StatusBy("Connected", t)
       ELSE /\ gps_threads' = [gps_threads EXCEPT ![t].pc = "outer", ![t].idx = @ + 1]
            /\ gps_status' = StatusBy("Error", t)
  /\ UNCHANGED << beside_gps_vars, gps_stop_flag, gps_handle, gps_data, gps_mgr >>

\* read_from_serial: `while !stop_flag.load(..)`; a set flag returns Ok(())
\* and the thread returns.
ReaderInner(t) ==
  /\ gps_threads[t].pc = "inner"
  /\ gps_threads' = [gps_threads EXCEPT ![t].pc = IF gps_stop_flag THEN "exited" ELSE "read_line"]
  /\ UNCHANGED << beside_gps_vars, gps_stop_flag, gps_handle, gps_status, gps_data, gps_mgr >>

\* read_from_serial: read_line returns a line starting with `$` that
\* parse_sentence accepts or one it rejects (both are counted), another line,
\* times out after up to 1000 ms, meets the end of the port's input (Ok(())
\* and the thread returns) or fails.
ReaderReadLine(t) ==
  /\ gps_threads[t].pc = "read_line"
  /\ \E result \in {"sentence", "rejected", "other", "timed_out", "eof", "error"} :
       CASE result \in {"sentence", "rejected"} ->
              /\ gps_threads[t].sentences_received < MaxSentences
              /\ gps_threads' =
                   [gps_threads EXCEPT ![t].pc = IF result = "sentence"
                                                 THEN "data" ELSE "status",
                                       ![t].sentences_received = @ + 1]
              /\ UNCHANGED gps_status
         [] result \in {"other", "timed_out"} ->
              /\ gps_threads' = [gps_threads EXCEPT ![t].pc = "inner"]
              /\ UNCHANGED gps_status
         [] result = "eof" ->
              /\ gps_threads' = [gps_threads EXCEPT ![t].pc = "exited"]
              /\ UNCHANGED gps_status
         [] OTHER ->
              /\ gps_status' = StatusBy("Error", t)
              /\ gps_threads' = [gps_threads EXCEPT ![t].pc = "outer", ![t].idx = @ + 1]
  /\ UNCHANGED << beside_gps_vars, gps_stop_flag, gps_handle, gps_data, gps_mgr >>

\* read_from_serial: the parsed fields are written under the data lock, which
\* is released before the status lock is taken.
ReaderData(t) ==
  /\ gps_threads[t].pc = "data"
  /\ gps_data' = t
  /\ gps_threads' = [gps_threads EXCEPT ![t].pc = "status"]
  /\ UNCHANGED << beside_gps_vars, gps_stop_flag, gps_handle, gps_status, gps_mgr >>

\* read_from_serial: `status.status = GpsConnectionStatus::ReceivingData` and
\* the count of sentences, for an accepted and for a rejected sentence.
ReaderStatus(t) ==
  /\ gps_threads[t].pc = "status"
  /\ gps_status' = [status |-> "ReceivingData", by |-> t,
                    sentences_received |-> gps_threads[t].sentences_received]
  /\ gps_threads' = [gps_threads EXCEPT ![t].pc = "inner"]
  /\ UNCHANGED << beside_gps_vars, gps_stop_flag, gps_handle, gps_data, gps_mgr >>

\* run_simulated_gps: the status is set to ReceivingData, then each turn of
\* `while !stop_flag.load(..)` writes the data, then the count; after the
\* loop reader_thread returns.
SimulatedStart(t) ==
  /\ gps_threads[t].pc = "simulated"
  /\ gps_status' = StatusBy("ReceivingData", t)
  /\ gps_threads' = [gps_threads EXCEPT ![t].pc = "simulated_loop", ![t].sentences_received = 0]
  /\ UNCHANGED << beside_gps_vars, gps_stop_flag, gps_handle, gps_data, gps_mgr >>

SimulatedLoop(t) ==
  /\ gps_threads[t].pc = "simulated_loop"
  /\ gps_stop_flag \/ gps_threads[t].sentences_received < MaxSentences
  /\ gps_threads' =
       IF gps_stop_flag THEN [gps_threads EXCEPT ![t].pc = "exited"]
       ELSE [gps_threads EXCEPT ![t].pc = "simulated_data", ![t].sentences_received = @ + 1]
  /\ UNCHANGED << beside_gps_vars, gps_stop_flag, gps_handle, gps_status, gps_data, gps_mgr >>

SimulatedData(t) ==
  /\ gps_threads[t].pc = "simulated_data"
  /\ gps_data' = t
  /\ gps_threads' = [gps_threads EXCEPT ![t].pc = "simulated_status"]
  /\ UNCHANGED << beside_gps_vars, gps_stop_flag, gps_handle, gps_status, gps_mgr >>

SimulatedStatus(t) ==
  /\ gps_threads[t].pc = "simulated_status"
  /\ gps_status' = SentencesBy(gps_threads[t].sentences_received, t)
  /\ gps_threads' = [gps_threads EXCEPT ![t].pc = "simulated_loop"]
  /\ UNCHANGED << beside_gps_vars, gps_stop_flag, gps_handle, gps_data, gps_mgr >>

ReaderStep ==
  \E t \in 1 .. Len(gps_threads) :
    \/ ReaderOuter(t)
    \/ ReaderFailed(t)
    \/ ReaderOpen(t)
    \/ ReaderInner(t)
    \/ ReaderReadLine(t)
    \/ ReaderData(t)
    \/ ReaderStatus(t)
    \/ SimulatedStart(t)
    \/ SimulatedLoop(t)
    \/ SimulatedData(t)
    \/ SimulatedStatus(t)

NextGps ==
  \/ SetSources
  \/ StopBegin
  \/ StartBegin
  \/ StopReturn
  \/ StartSources
  \/ StartSpawn
  \/ StartHandle
  \/ StartStatus
  \/ ReaderStep

SpecGps == InitGps /\ [][NextGps]_vars

\* C30: once stop or a later start has returned, at most one reader thread is
\* alive: every reader of an earlier start has seen the stop flag and ended.
C30_AtMostOneReader ==
  gps_mgr.pc = "idle" => Cardinality(AliveThreads) <= 1

====
